---- MODULE Spec2Model ----
(***************************************************************************)
(* Model of sde_takehome/baseline_pipeline_monitor.py: the PipelineMonitor *)
(* metrics store (_update_pipeline_metrics), the anomaly detectors         *)
(* (detect_anomalies) and the alert deduplicator (_add_alert).             *)
(*                                                                         *)
(* Conventions.                                                            *)
(*  - A datetime is [seconds, aware]: the second it denotes on one axis    *)
(*    and whether it carries a tzinfo.  The zone of the machine is UTC, so  *)
(*    that datetime.now() and datetime.now(tz) denote the same second.      *)
(*    Python refuses to subtract or compare an aware and a naive datetime   *)
(*    (TypeError).                                                          *)
(*  - A Python Optional is a sequence of length <= 1 (<<>> is None).       *)
(*  - A Python number produced by statistics.mean is the exact rational    *)
(*    [num, den] in lowest terms; comparisons are made by exact            *)
(*    cross-multiplication.                                                *)
(*  - A pipeline id is a sequence of one-character strings, so that        *)
(*    lower() and the substring test of detect_anomalies can be computed.  *)
(*  - A formatted number of a message (f"{x:.1f}") is the record           *)
(*    [neg, mag]: the sign printed and the digits printed, as an integer.  *)
(*  - The calls of datetime.now() made during one detect_anomalies() give  *)
(*    one value, `now`; the clock moves between operations.                *)
(***************************************************************************)
EXTENDS Integers, Sequences, FiniteSets, TLC

(***************************************************************************)
(* Bounds of the model.                                                    *)
(***************************************************************************)
MaxExecutions == 5
MaxNow == 3
MaxWindowExecutions == 152
WindowPeriod == 3
MaxDurationExecutions == 11
MaxUnusualDurations == 4
MaxDetectExecutions == 6
MaxScheduleExecutions == 12
SchedulePeriod == 4
TickSeconds == 1800
MaxWait == 2
MaxQueryExecutions == 5
MaxIsolationExecutions == 10
MaxNaive == 1
MaxOrderExecutions == 11
MaxPruneExecutions == 6
MaxDedupExecutions == 10
WaitSeconds == 864000

(***************************************************************************)
(* Program constants.                                                      *)
(***************************************************************************)
MAX_HISTORY == 100
MIN_EXECUTIONS == 5
MIN_SAMPLES == 5
SUCCESS_RATE_THRESHOLD == 80
SUCCESS_RATE_HIGH == 50
DURATION_STD_DEV == 2
DURATION_HIGH == 3
THROUGHPUT_DECREASE == 50
RECENT_STATUSES == 5
FAILURE_COUNT == 3
RECENT_TIMES == 10
DELAYED_HOURS == 25
DEDUP_SECONDS == 3600
SECONDS_PER_HOUR == 3600
SECONDS_PER_DAY == 86400

PipelineStatus == {"RUNNING", "SUCCESS", "FAILED", "CANCELLED", "TIMEOUT", "UNKNOWN"}

AlertSeverity == {"LOW", "MEDIUM", "HIGH", "CRITICAL"}

(***************************************************************************)
(* Arithmetic helpers.                                                     *)
(***************************************************************************)
Abs(x) == IF x < 0 THEN -x ELSE x

RECURSIVE GCD(_, _)
GCD(a, b) == IF b = 0 THEN a ELSE GCD(b, a % b)

\* the exact rational n/d (d > 0) in lowest terms
Rat(n, d) ==
    LET g == GCD(Abs(n), d)
    IN  [num |-> n \div g, den |-> d \div g]

RECURSIVE SumSeq(_)
SumSeq(s) == IF s = <<>> THEN 0 ELSE Head(s) + SumSeq(Tail(s))

RECURSIVE SumSquares(_)
SumSquares(s) == IF s = <<>> THEN 0 ELSE Head(s) * Head(s) + SumSquares(Tail(s))

\* statistics.mean of a non-empty list of integers
Mean(s) == Rat(SumSeq(s), Len(s))

\* n * sum((x - mean)^2), an integer; statistics.stdev(s) is
\* sqrt(SumSqDev(s) / (n * (n - 1)))
SumSqDev(s) == Len(s) * SumSquares(s) - SumSeq(s) * SumSeq(s)

\* list[-k:]
LastK(s, k) == IF Len(s) <= k THEN s ELSE SubSeq(s, Len(s) - k + 1, Len(s))

\* round-half-even of the non-negative rational n/d to an integer
RoundHalfEven(n, d) ==
    LET q == n \div d
        r == n % d
    IN  IF 2 * r < d THEN q
        ELSE IF 2 * r > d THEN q + 1
        ELSE IF q % 2 = 0 THEN q ELSE q + 1

\* f"{n/d:.1f}" for d > 0: the sign printed and the digits printed (tenths)
Format1(n, d) == [neg |-> n < 0, mag |-> RoundHalfEven(Abs(n) * 10, d)]

\* floor(sqrt(n)) by bisection on lo..hi (lo*lo <= n < hi*hi)
RECURSIVE ISqrtIn(_, _, _)
ISqrtIn(n, lo, hi) ==
    IF hi - lo <= 1 THEN lo
    ELSE LET mid == (lo + hi) \div 2
         IN  IF mid * mid <= n THEN ISqrtIn(n, mid, hi) ELSE ISqrtIn(n, lo, mid)

ISqrt(n) == ISqrtIn(n, 0, 4000)

\* <<floor(10^k * n / d), remainder>> by long division, n >= 0, d > 0
RECURSIVE LongDiv(_, _, _)
LongDiv(n, d, k) ==
    IF k = 0 THEN <<n \div d, n % d>>
    ELSE LET p == LongDiv(n, d, k - 1)
         IN  <<10 * p[1] + ((10 * p[2]) \div d), (10 * p[2]) % d>>

\* f"{sqrt(n/d):.2f}" for n >= 0, d > 0: the digits printed (hundredths).
\* t = floor(200 * sqrt(n/d)) = floor(sqrt(40000 * n / d)); the value printed
\* is round(t / 2), a tie (200 * sqrt(n/d) an odd integer) going to even.
Format2Sqrt(n, d) ==
    LET g  == GCD(n, d)
        p  == LongDiv(n \div g, d \div g, 4)
        x  == 4 * p[1] + ((4 * p[2]) \div (d \div g))
        ex == (4 * p[2]) % (d \div g) = 0
        t  == ISqrt(x)
        k  == (t + 1) \div 2
    IN  IF t % 2 = 1 /\ ex /\ t * t = x /\ k % 2 = 1 THEN k - 1 ELSE k

(***************************************************************************)
(* Strings as character sequences: str.lower() and the `in` test.          *)
(***************************************************************************)
LowerChar(c) ==
    CASE c = "R" -> "r" [] c = "E" -> "e" [] c = "P" -> "p"
      [] c = "O" -> "o" [] c = "T" -> "t" [] c = "L" -> "l"
      [] OTHER -> c

Lower(s) == [i \in 1..Len(s) |-> LowerChar(s[i])]

Contains(needle, s) ==
    \E i \in 1..(Len(s) - Len(needle) + 1) :
        SubSeq(s, i, i + Len(needle) - 1) = needle

REPORT == <<"r", "e", "p", "o", "r", "t">>

IsReport(pipeline_id) == Contains(REPORT, Lower(pipeline_id))

(***************************************************************************)
(* State.                                                                  *)
(*   executions        self.executions, the ledger                         *)
(*   pipeline_keys     the keys of self.pipeline_metrics in insertion      *)
(*                     order (a Python dict iterates in that order)        *)
(*   pipeline_metrics  self.pipeline_metrics, pipeline id -> metrics       *)
(*   alert_history     self.alert_history, pipeline id -> list of alerts   *)
(*   now               the value datetime.now() returns                    *)
(*   lastOp            the operation that ran last                         *)
(*   kwargs            the arguments of the query that ran last            *)
(*   candidates        the _add_alert calls of the last detect_anomalies   *)
(*   result            the value the last query returned                   *)
(*   raised            the exception the last operation raised, if any     *)
(*   emitted           every alert detect_anomalies ever returned          *)
(***************************************************************************)
VARIABLES executions, pipeline_keys, pipeline_metrics, alert_history, now,
          lastOp, kwargs, candidates, result, raised, emitted

vars == <<executions, pipeline_keys, pipeline_metrics, alert_history, now,
          lastOp, kwargs, candidates, result, raised, emitted>>

store == <<executions, pipeline_keys, pipeline_metrics>>

None == <<>>
Some(x) == <<x>>

\* PipelineExecution.__init__ applied to one parsed input line.  execution_id
\* and end_time are stored by the constructor and read by no operation; the
\* start_time of a line is given as the second its ISO text denotes and
\* whether the text carries a UTC offset (datetime.fromisoformat).
PipelineExecution(raw) ==
    [pipeline_id       |-> raw.pipeline_id,
     status            |-> IF raw.status \in PipelineStatus THEN raw.status ELSE "UNKNOWN",
     start_time        |-> [seconds |-> raw.start_time, aware |-> raw.aware],
     duration          |-> IF raw.duration # None THEN raw.duration[1] ELSE 0,
     records_processed |-> IF raw.records_processed # None THEN raw.records_processed[1] ELSE 0,
     team              |-> raw.team]

\* the default factory of self.pipeline_metrics
DefaultMetrics ==
    [total_executions          |-> 0,
     successful_executions     |-> 0,
     failed_executions         |-> 0,
     avg_duration              |-> Rat(0, 1),
     avg_records_processed     |-> Rat(0, 1),
     last_execution            |-> None,
     team                      |-> None,
     durations                 |-> <<>>,
     records_processed_history |-> <<>>,
     status_history            |-> <<>>,
     execution_times           |-> <<>>]

\* self.pipeline_metrics[pipeline_id]: the entry, created on first access
MetricsOf(metrics, pipeline_id) ==
    IF pipeline_id \in DOMAIN metrics THEN metrics[pipeline_id] ELSE DefaultMetrics

\* a slip: pop() for pop(0), the newest entry dropped
AppendBoundedPopLast(window, x) ==
    LET w == Append(window, x)
    IN  IF Len(w) > MAX_HISTORY THEN SubSeq(w, 1, Len(w) - 1) ELSE w

\* list.append(x) followed by pop(0) when the list is longer than MAX_HISTORY
AppendBounded(window, x) ==
    LET w == Append(window, x)
    IN  IF Len(w) > MAX_HISTORY THEN Tail(w) ELSE w

\* a slip: `else` for `elif status == FAILED`
FailedExecutionsElse(m, execution) ==
    IF execution.status = "SUCCESS" THEN m.failed_executions
    ELSE m.failed_executions + 1

\* failed_executions after the if/elif on the status
FailedExecutions(m, execution) ==
    IF execution.status = "SUCCESS" THEN m.failed_executions
    ELSE IF execution.status = "FAILED" THEN m.failed_executions + 1
    ELSE m.failed_executions

\* a slip: a duration of 0 is taken as a sample
HasDurationOrZero(execution) == execution.duration >= 0

\* `if execution.duration and execution.duration > 0`
HasDuration(execution) == execution.duration # 0 /\ execution.duration > 0

\* `if execution.records_processed and execution.records_processed > 0`
HasRecords(execution) ==
    execution.records_processed # 0 /\ execution.records_processed > 0

\* metrics['durations'] after the update
DurationsAfter(m, execution) ==
    IF HasDuration(execution) THEN AppendBounded(m.durations, execution.duration)
    ELSE m.durations

\* a slip: the mean taken before the oldest entry is dropped
AvgDurationBeforePop(m, execution) ==
    IF HasDuration(execution) THEN Mean(Append(m.durations, execution.duration))
    ELSE m.avg_duration

\* metrics['avg_duration'] after the update
AvgDurationAfter(m, execution) ==
    IF HasDuration(execution) THEN Mean(DurationsAfter(m, execution))
    ELSE m.avg_duration

\* metrics['records_processed_history'] after the update
RecordsAfter(m, execution) ==
    IF HasRecords(execution)
    THEN AppendBounded(m.records_processed_history, execution.records_processed)
    ELSE m.records_processed_history

\* metrics['avg_records_processed'] after the update
AvgRecordsAfter(m, execution) ==
    IF HasRecords(execution) THEN Mean(RecordsAfter(m, execution))
    ELSE m.avg_records_processed

\* a slip: the latest start time kept, not the one ingested last
LastExecutionLatest(m, execution) ==
    IF m.last_execution # None
       /\ m.last_execution[1].seconds > execution.start_time.seconds
    THEN m.last_execution
    ELSE Some(execution.start_time)

\* metrics['last_execution'] after the update
LastExecutionAfter(m, execution) == Some(execution.start_time)

\* a slip: the team of the first record kept
TeamFirst(m, execution) ==
    IF m.team # None THEN m.team ELSE Some(execution.team)

\* metrics['team'] after the update
TeamAfter(m, execution) == Some(execution.team)

\* the metrics entry of execution.pipeline_id after _update_pipeline_metrics
UpdatePipelineMetrics(m, execution) ==
    [total_executions          |-> m.total_executions + 1,
     successful_executions     |-> IF execution.status = "SUCCESS"
                                   THEN m.successful_executions + 1
                                   ELSE m.successful_executions,
     failed_executions         |-> FailedExecutions(m, execution),
     avg_duration              |-> AvgDurationAfter(m, execution),
     avg_records_processed     |-> AvgRecordsAfter(m, execution),
     last_execution            |-> LastExecutionAfter(m, execution),
     team                      |-> TeamAfter(m, execution),
     durations                 |-> DurationsAfter(m, execution),
     records_processed_history |-> RecordsAfter(m, execution),
     status_history            |-> AppendBounded(m.status_history, execution.status),
     execution_times           |-> AppendBounded(m.execution_times, execution.start_time)]

\* a slip: the ledger capped like the rolling windows
LedgerAfterBounded(ledger, execution) == AppendBounded(ledger, execution)

\* self.executions.append(execution)
LedgerAfter(ledger, execution) == Append(ledger, execution)

\* a slip: the record is folded into the entry of every known pipeline
LoadExecutionEvery(raw) ==
    LET execution == PipelineExecution(raw)
        pid       == execution.pipeline_id
    IN  /\ executions' = LedgerAfter(executions, execution)
        /\ pipeline_keys' = IF pid \in DOMAIN pipeline_metrics
                            THEN pipeline_keys
                            ELSE Append(pipeline_keys, pid)
        /\ pipeline_metrics' =
               [p \in DOMAIN pipeline_metrics \cup {pid} |->
                   UpdatePipelineMetrics(MetricsOf(pipeline_metrics, p), execution)]
        /\ lastOp' = "record"
        /\ kwargs' = <<>>
        /\ candidates' = <<>>
        /\ result' = <<>>
        /\ raised' = None
        /\ UNCHANGED <<alert_history, now, emitted>>

\* one iteration of the loop of load_executions: one input line is parsed,
\* appended to the ledger and folded into the metrics
LoadExecution(raw) ==
    LET execution == PipelineExecution(raw)
        pid       == execution.pipeline_id
    IN  /\ executions' = LedgerAfter(executions, execution)
        /\ pipeline_keys' = IF pid \in DOMAIN pipeline_metrics
                            THEN pipeline_keys
                            ELSE Append(pipeline_keys, pid)
        /\ pipeline_metrics' =
               [p \in DOMAIN pipeline_metrics \cup {pid} |->
                   IF p = pid
                   THEN UpdatePipelineMetrics(MetricsOf(pipeline_metrics, pid), execution)
                   ELSE pipeline_metrics[p]]
        /\ lastOp' = "record"
        /\ kwargs' = <<>>
        /\ candidates' = <<>>
        /\ result' = <<>>
        /\ raised' = None
        /\ UNCHANGED <<alert_history, now, emitted>>

(***************************************************************************)
(* detect_anomalies: the detectors.  Each gives the arguments of the       *)
(* _add_alert calls it makes for one pipeline: severity and message.       *)
(***************************************************************************)
Plain(n) == [neg |-> n < 0, mag |-> Abs(n)]

Message(text, args) == [text |-> text, args |-> args]

Candidate(severity, message) == [severity |-> severity, message |-> message]

\* a slip: `<=` for `<` on the threshold
SuccessRateCandidatesAtMost(m) ==
    LET s == m.successful_executions
        t == m.total_executions
    IN  IF 100 * s <= SUCCESS_RATE_THRESHOLD * t
        THEN << Candidate(IF 100 * s < SUCCESS_RATE_HIGH * t THEN "HIGH" ELSE "MEDIUM",
                          Message("Low success rate", <<Format1(100 * s, t)>>)) >>
        ELSE <<>>

\* 1. Success Rate Analysis
SuccessRateCandidates(m) ==
    LET s == m.successful_executions
        t == m.total_executions
    IN  IF 100 * s < SUCCESS_RATE_THRESHOLD * t
        THEN << Candidate(IF 100 * s < SUCCESS_RATE_HIGH * t THEN "HIGH" ELSE "MEDIUM",
                          Message("Low success rate", <<Format1(100 * s, t)>>)) >>
        ELSE <<>>

\* a slip: statistics.pstdev for statistics.stdev, so that
\* z^2 = (n*latest - S)^2 / B
DurationCandidatesPstdev(m) ==
    LET d      == m.durations
        n      == Len(d)
        latest == d[n]
        a      == Abs(n * latest - SumSeq(d))
        zNum   == a * a
        zDen   == SumSqDev(d)
    IN  IF n >= MIN_SAMPLES /\ SumSqDev(d) > 0
           /\ zNum > DURATION_STD_DEV * DURATION_STD_DEV * zDen
        THEN << Candidate(IF zNum > DURATION_HIGH * DURATION_HIGH * zDen
                          THEN "HIGH" ELSE "MEDIUM",
                          Message("Abnormal duration",
                                  <<Plain(latest), Plain(Format2Sqrt(zNum, zDen))>>)) >>
        ELSE <<>>

\* 2. Duration Analysis.  With n samples of sum S, mean = S/n and
\* stdev^2 = B / (n(n-1)) for B = SumSqDev, so that
\* z^2 = (n-1) * (n*latest - S)^2 / (n * B).
DurationCandidates(m) ==
    LET d      == m.durations
        n      == Len(d)
        latest == d[n]
        a      == Abs(n * latest - SumSeq(d))
        zNum   == (n - 1) * a * a
        zDen   == n * SumSqDev(d)
    IN  IF n >= MIN_SAMPLES /\ SumSqDev(d) > 0
           /\ zNum > DURATION_STD_DEV * DURATION_STD_DEV * zDen
        THEN << Candidate(IF zNum > DURATION_HIGH * DURATION_HIGH * zDen
                          THEN "HIGH" ELSE "MEDIUM",
                          Message("Abnormal duration",
                                  <<Plain(latest), Plain(Format2Sqrt(zNum, zDen))>>)) >>
        ELSE <<>>

\* a slip: `>=` for `>` on the threshold
ThroughputCandidatesAtLeast(m) ==
    LET r      == m.records_processed_history
        n      == Len(r)
        latest == r[n]
        S      == SumSeq(r)
    IN  IF n >= MIN_SAMPLES /\ S > 0
           /\ 100 * (S - n * latest) >= THROUGHPUT_DECREASE * S
        THEN << Candidate("HIGH",
                          Message("Severe throughput drop",
                                  <<Format1(100 * (S - n * latest), S)>>)) >>
        ELSE <<>>

\* 3. Throughput Analysis: drop = (S/n - latest) / (S/n) * 100
ThroughputCandidates(m) ==
    LET r      == m.records_processed_history
        n      == Len(r)
        latest == r[n]
        S      == SumSeq(r)
    IN  IF n >= MIN_SAMPLES /\ S > 0
           /\ 100 * (S - n * latest) > THROUGHPUT_DECREASE * S
        THEN << Candidate("HIGH",
                          Message("Severe throughput drop",
                                  <<Format1(100 * (S - n * latest), S)>>)) >>
        ELSE <<>>

\* a slip: `>` for `>=` on the number of failures
FailureCandidatesMoreThan(m) ==
    LET recent_statuses == LastK(m.status_history, RECENT_STATUSES)
        failure_count   == Cardinality({i \in 1..Len(recent_statuses) :
                                           recent_statuses[i] = "FAILED"})
    IN  IF Len(recent_statuses) = RECENT_STATUSES /\ failure_count > FAILURE_COUNT
        THEN << Candidate("CRITICAL",
                          Message("Repeated failures", <<Plain(failure_count)>>)) >>
        ELSE <<>>

\* 4. Failure Pattern Analysis
FailureCandidates(m) ==
    LET recent_statuses == LastK(m.status_history, RECENT_STATUSES)
        failure_count   == Cardinality({i \in 1..Len(recent_statuses) :
                                           recent_statuses[i] = "FAILED"})
    IN  IF Len(recent_statuses) = RECENT_STATUSES /\ failure_count >= FAILURE_COUNT
        THEN << Candidate("CRITICAL",
                          Message("Repeated failures", <<Plain(failure_count)>>)) >>
        ELSE <<>>

\* `t2 - t1` raises TypeError when one datetime is aware and the other naive
TimeDiffsRaise(times) ==
    \E i \in 1..(Len(times) - 1) : times[i + 1].aware # times[i].aware

\* [t2 - t1 for t1, t2 in zip(times[:-1], times[1:])], in seconds
TimeDiffs(times) ==
    [i \in 1..(Len(times) - 1) |-> times[i + 1].seconds - times[i].seconds]

\* a slip: the whole window for its last 10 entries
RecentTimesAll(m) == m.execution_times

\* metrics['execution_times'][-10:]
RecentTimes(m) == LastK(m.execution_times, RECENT_TIMES)

\* a slip: `elif` for the second `if`, no "missing" after a "delayed"
ScheduleCandidatesElif(pipeline_id, m, t) ==
    LET recent_times == RecentTimes(m)
        time_diffs   == TimeDiffs(recent_times)
        k            == Len(time_diffs)
        total        == SumSeq(time_diffs)
        since        == t - m.last_execution[1].seconds
        delayed      == IF total > DELAYED_HOURS * SECONDS_PER_HOUR * k
                        THEN << Candidate("HIGH",
                                   Message("Report generation delayed",
                                           <<Format1(total, SECONDS_PER_HOUR * k)>>)) >>
                        ELSE <<>>
        missing      == IF delayed = <<>> /\ 2 * k * since > 3 * total
                        THEN << Candidate("HIGH",
                                   Message("Missing report",
                                           <<Format1(since, SECONDS_PER_HOUR)>>)) >>
                        ELSE <<>>
    IN  IF IsReport(pipeline_id) /\ Len(recent_times) >= 2
           /\ ~TimeDiffsRaise(recent_times)
        THEN delayed \o missing
        ELSE <<>>

\* 5. Report Generation Pattern Analysis.  avg_interval (hours) is
\* total / (3600 * k) for the k gaps of the last RECENT_TIMES entries, and
\* hours_since_last is since / 3600, so that
\* hours_since_last > avg_interval * 1.5 is 2 * k * since > 3 * total.
ScheduleCandidates(pipeline_id, m, t) ==
    LET recent_times == RecentTimes(m)
        time_diffs   == TimeDiffs(recent_times)
        k            == Len(time_diffs)
        total        == SumSeq(time_diffs)
        since        == t - m.last_execution[1].seconds
        delayed      == IF total > DELAYED_HOURS * SECONDS_PER_HOUR * k
                        THEN << Candidate("HIGH",
                                   Message("Report generation delayed",
                                           <<Format1(total, SECONDS_PER_HOUR * k)>>)) >>
                        ELSE <<>>
        missing      == IF m.last_execution # None /\ 2 * k * since > 3 * total
                        THEN << Candidate("HIGH",
                                   Message("Missing report",
                                           <<Format1(since, SECONDS_PER_HOUR)>>)) >>
                        ELSE <<>>
    IN  IF IsReport(pipeline_id) /\ Len(recent_times) >= 2
           /\ ~TimeDiffsRaise(recent_times)
        THEN delayed \o missing
        ELSE <<>>

\* a slip: one execution fewer is enough
InsufficientDataBelowFour(m) == m.total_executions < MIN_EXECUTIONS - 1

\* "Skip pipelines with insufficient data"
InsufficientData(m) == m.total_executions < MIN_EXECUTIONS

\* the iteration of the loop of detect_anomalies for this pipeline raises
\* (TypeError in time_diffs), after the calls of the detectors 1 to 4
PipelineRaises(pipeline_id, m) ==
    /\ ~InsufficientData(m)
    /\ IsReport(pipeline_id)
    /\ Len(RecentTimes(m)) >= 2
    /\ TimeDiffsRaise(RecentTimes(m))

\* a slip: the schedule analysis moved before the other four
PipelineCandidatesScheduleFirst(pipeline_id, m, t) ==
    IF InsufficientData(m) THEN <<>>
    ELSE LET all == ScheduleCandidates(pipeline_id, m, t)
                    \o SuccessRateCandidates(m) \o DurationCandidates(m)
                    \o ThroughputCandidates(m) \o FailureCandidates(m)
         IN  [i \in 1..Len(all) |->
                 [pipeline_id |-> pipeline_id, severity |-> all[i].severity,
                  message |-> all[i].message, team |-> m.team]]

\* the _add_alert calls of one iteration of the loop of detect_anomalies
PipelineCandidates(pipeline_id, m, t) ==
    IF InsufficientData(m) THEN <<>>
    ELSE LET all == SuccessRateCandidates(m) \o DurationCandidates(m)
                    \o ThroughputCandidates(m) \o FailureCandidates(m)
                    \o ScheduleCandidates(pipeline_id, m, t)
         IN  [i \in 1..Len(all) |->
                 [pipeline_id |-> pipeline_id, severity |-> all[i].severity,
                  message |-> all[i].message, team |-> m.team]]

\* the _add_alert calls of detect_anomalies, over the pipelines in dict
\* order; no exception is caught, so the loop ends at the first iteration
\* that raises
RECURSIVE AllCandidates(_, _, _)
AllCandidates(keys, metrics, t) ==
    IF keys = <<>> THEN <<>>
    ELSE PipelineCandidates(Head(keys), metrics[Head(keys)], t)
         \o (IF PipelineRaises(Head(keys), metrics[Head(keys)]) THEN <<>>
             ELSE AllCandidates(Tail(keys), metrics, t))

\* some iteration of the loop of detect_anomalies raises
DetectRaises(keys, metrics) ==
    \E i \in 1..Len(keys) : PipelineRaises(keys[i], metrics[keys[i]])

(***************************************************************************)
(* _add_alert: the deduplicator.  acc is [anomalies, history]: the list    *)
(* detect_anomalies returns and self.alert_history.                        *)
(***************************************************************************)
\* a slip: the window taken as one minute
RecentAlertsMinute(alerts, t) ==
    SelectSeq(alerts, LAMBDA a : t - a.timestamp < 60)

\* alerts of the list not older than one hour at time t
RecentAlerts(alerts, t) ==
    SelectSeq(alerts, LAMBDA a : t - a.timestamp < DEDUP_SECONDS)

\* self.alert_history[pipeline_id] creates the (empty) entry when missing
Touch(history, pipeline_id) ==
    IF pipeline_id \in DOMAIN history THEN history
    ELSE [p \in DOMAIN history \cup {pipeline_id} |->
             IF p = pipeline_id THEN <<>> ELSE history[p]]

\* "Check for similar alerts in the last hour"
IsDuplicate(recent_alerts, c) ==
    \E i \in 1..Len(recent_alerts) :
        /\ recent_alerts[i].severity = c.severity
        /\ recent_alerts[i].message = c.message

\* a slip: a duplicate moves the alerts it repeats to the time of the call
SuppressedHistoryRefresh(history, recent_alerts, c, t) ==
    [history EXCEPT ![c.pipeline_id] =
        [i \in 1..Len(@) |->
            IF @[i].severity = c.severity /\ @[i].message = c.message
            THEN [@[i] EXCEPT !.timestamp = t]
            ELSE @[i]]]

\* self.alert_history after `return  # Skip duplicate alert`: recent_alerts
\* is a new list the comprehension built, and it is dropped
SuppressedHistory(history, recent_alerts, c, t) == history

\* a slip: the new alert is returned and not remembered
EmittedHistoryPruned(history, recent_alerts, alert) ==
    [history EXCEPT ![alert.pipeline_id] = recent_alerts]

\* self.alert_history after `recent_alerts.append(alert)` and the assignment
\* of recent_alerts to the entry of the pipeline
EmittedHistory(history, recent_alerts, alert) ==
    [history EXCEPT ![alert.pipeline_id] = Append(recent_alerts, alert)]

\* a slip: one history for all pipelines
AddAlertAnyPipeline(acc, c, t) ==
    LET history       == Touch(acc.history, c.pipeline_id)
        recent_alerts == RecentAlerts(history[c.pipeline_id], t)
        alert         == [pipeline_id |-> c.pipeline_id, severity |-> c.severity,
                          message |-> c.message, team |-> c.team, timestamp |-> t]
    IN  IF \E p \in DOMAIN history : IsDuplicate(RecentAlerts(history[p], t), c)
        THEN [anomalies |-> acc.anomalies,
              history   |-> SuppressedHistory(history, recent_alerts, c, t)]
        ELSE [anomalies |-> Append(acc.anomalies, alert),
              history   |-> EmittedHistory(history, recent_alerts, alert)]

\* one call of _add_alert
AddAlert(acc, c, t) ==
    LET history       == Touch(acc.history, c.pipeline_id)
        recent_alerts == RecentAlerts(history[c.pipeline_id], t)
        alert         == [pipeline_id |-> c.pipeline_id, severity |-> c.severity,
                          message |-> c.message, team |-> c.team, timestamp |-> t]
    IN  IF IsDuplicate(recent_alerts, c)
        THEN [anomalies |-> acc.anomalies,
              history   |-> SuppressedHistory(history, recent_alerts, c, t)]
        ELSE [anomalies |-> Append(acc.anomalies, alert),
              history   |-> EmittedHistory(history, recent_alerts, alert)]

RECURSIVE AddAlerts(_, _, _)
AddAlerts(acc, cs, t) ==
    IF cs = <<>> THEN acc
    ELSE AddAlerts(AddAlert(acc, Head(cs), t), Tail(cs), t)

\* detect_anomalies(): the query "anomalies".  When an iteration raises,
\* the alerts already added stay in self.alert_history and no list is
\* returned.
DetectAnomalies ==
    LET cs  == AllCandidates(pipeline_keys, pipeline_metrics, now)
        out == AddAlerts([anomalies |-> <<>>, history |-> alert_history], cs, now)
        exc == DetectRaises(pipeline_keys, pipeline_metrics)
    IN  /\ candidates' = cs
        /\ result' = IF exc THEN <<>> ELSE out.anomalies
        /\ raised' = IF exc THEN Some("TypeError") ELSE None
        /\ alert_history' = out.history
        /\ emitted' = IF exc THEN emitted ELSE emitted \o out.anomalies
        /\ lastOp' = "anomalies"
        /\ kwargs' = <<>>
        /\ UNCHANGED <<store, now>>

\* time passes: datetime.now() moves forward
Tick ==
    /\ now + TickSeconds <= MaxNow * TickSeconds
    /\ now' = now + TickSeconds
    /\ lastOp' = "tick"
    /\ kwargs' = <<>>
    /\ candidates' = <<>>
    /\ result' = <<>>
    /\ raised' = None
    /\ UNCHANGED <<store, alert_history, emitted>>

\* PipelineMonitor.__init__
Init ==
    /\ executions = <<>>
    /\ pipeline_keys = <<>>
    /\ pipeline_metrics = << >>
    /\ alert_history = << >>
    /\ now = 0
    /\ lastOp = "init"
    /\ kwargs = <<>>
    /\ candidates = <<>>
    /\ result = <<>>
    /\ raised = None
    /\ emitted = <<>>

(***************************************************************************)
(* The read-only queries.  A result is [kind, value]: kind names the       *)
(* return statement taken, value is the dict or number returned.           *)
(***************************************************************************)
\* `if pipeline_id:` : the argument is neither None nor the empty string
Truthy(pipeline_id) == pipeline_id # None /\ pipeline_id[1] # <<>>

\* success / total * 100, 0 without executions
HealthSuccessRate(m) ==
    IF m.total_executions > 0
    THEN Rat(100 * m.successful_executions, m.total_executions)
    ELSE Rat(0, 1)

\* the dict get_pipeline_health returns for one known pipeline
HealthSnapshot(pipeline_id, m) ==
    [pipeline_id           |-> pipeline_id,
     success_rate          |-> HealthSuccessRate(m),
     total_executions      |-> m.total_executions,
     failed_executions     |-> m.failed_executions,
     avg_duration          |-> m.avg_duration,
     avg_records_processed |-> m.avg_records_processed,
     last_execution        |-> m.last_execution,
     team                  |-> m.team]

\* the dict get_pipeline_health returns for all pipelines
HealthSummary(metrics) ==
    [pid \in DOMAIN metrics |->
        [success_rate     |-> HealthSuccessRate(metrics[pid]),
         total_executions |-> metrics[pid].total_executions,
         team             |-> metrics[pid].team]]

\* get_pipeline_health(pipeline_id), pipeline_id an Optional string
GetPipelineHealth(metrics, pipeline_id) ==
    IF Truthy(pipeline_id)
    THEN IF pipeline_id[1] \notin DOMAIN metrics
         THEN [kind |-> "NotFound", value |-> [error |-> pipeline_id[1]]]
         ELSE [kind  |-> "HealthSnapshot",
               value |-> HealthSnapshot(pipeline_id[1], metrics[pipeline_id[1]])]
    ELSE [kind |-> "HealthSummaryMap", value |-> HealthSummary(metrics)]

\* a slip: the entry read before the membership test, which creates it
HealthStoreTouch(metrics, pipeline_id) ==
    IF Truthy(pipeline_id) /\ pipeline_id[1] \notin DOMAIN metrics
    THEN [p \in DOMAIN metrics \cup {pipeline_id[1]} |->
             IF p = pipeline_id[1] THEN DefaultMetrics ELSE metrics[p]]
    ELSE metrics

\* self.pipeline_metrics after get_pipeline_health: `in` and .items() create
\* no entry, and the entry is read only when it exists
HealthStore(metrics, pipeline_id) == metrics

\* the query "pipeline_health"
QueryHealth(pipeline_id) ==
    LET after == HealthStore(pipeline_metrics, pipeline_id)
    IN  /\ result' = GetPipelineHealth(pipeline_metrics, pipeline_id)
        /\ pipeline_metrics' = after
        /\ pipeline_keys' = IF DOMAIN after = DOMAIN pipeline_metrics
                            THEN pipeline_keys
                            ELSE Append(pipeline_keys, pipeline_id[1])
        /\ lastOp' = "pipeline_health"
        /\ kwargs' = <<pipeline_id>>
        /\ candidates' = <<>>
        /\ raised' = None
        /\ UNCHANGED <<executions, alert_history, now, emitted>>

\* the default factory of team_metrics
DefaultTeamMetrics ==
    [total_pipelines       |-> 0,
     total_executions      |-> 0,
     successful_executions |-> 0,
     failed_executions     |-> 0,
     avg_success_rate      |-> Rat(0, 1)]

\* the first loop of get_team_metrics, over the pipelines in dict order
RECURSIVE TeamTotals(_, _, _)
TeamTotals(keys, metrics, acc) ==
    IF keys = <<>> THEN acc
    ELSE LET m    == metrics[Head(keys)]
             team == m.team[1]
             old  == IF team \in DOMAIN acc THEN acc[team] ELSE DefaultTeamMetrics
             new  == [old EXCEPT
                         !.total_pipelines = @ + 1,
                         !.total_executions = @ + m.total_executions,
                         !.successful_executions = @ + m.successful_executions,
                         !.failed_executions = @ + m.failed_executions]
         IN  TeamTotals(Tail(keys), metrics,
                        [t \in DOMAIN acc \cup {team} |->
                            IF t = team THEN new ELSE acc[t]])

\* a slip: the rate taken over the runs that ended in SUCCESS or FAILED
TeamSuccessRateOfEnded(tm) ==
    IF tm.total_executions > 0
    THEN IF tm.successful_executions + tm.failed_executions > 0
         THEN Rat(100 * tm.successful_executions,
                  tm.successful_executions + tm.failed_executions)
         ELSE Rat(0, 1)
    ELSE tm.avg_success_rate

\* the second loop of get_team_metrics: avg_success_rate of one team
TeamSuccessRate(tm) ==
    IF tm.total_executions > 0
    THEN Rat(100 * tm.successful_executions, tm.total_executions)
    ELSE tm.avg_success_rate

\* get_team_metrics()
GetTeamMetrics(keys, metrics) ==
    LET totals == TeamTotals(keys, metrics, << >>)
    IN  [kind  |-> "TeamAggregates",
         value |-> [t \in DOMAIN totals |->
                       [totals[t] EXCEPT !.avg_success_rate = TeamSuccessRate(totals[t])]]]

\* the query "team_metrics"
QueryTeamMetrics ==
    /\ result' = GetTeamMetrics(pipeline_keys, pipeline_metrics)
    /\ lastOp' = "team_metrics"
    /\ kwargs' = <<>>
    /\ candidates' = <<>>
    /\ raised' = None
    /\ UNCHANGED <<store, alert_history, now, emitted>>

\* the query "total_executions"
QueryTotalExecutions ==
    /\ result' = [kind |-> "TotalExecutions", value |-> Len(executions)]
    /\ lastOp' = "total_executions"
    /\ kwargs' = <<>>
    /\ candidates' = <<>>
    /\ raised' = None
    /\ UNCHANGED <<store, alert_history, now, emitted>>

(***************************************************************************)
(* get_performance_trends.  The date of a start_time is the number of its  *)
(* day (seconds \div 86400); the standard deviation is given by its        *)
(* square, an exact rational.                                              *)
(***************************************************************************)
\* datetime.now() - timedelta(days=days), given the tzinfo of the first
\* execution of the ledger when there is one
CutoffDate(ledger, t, days) ==
    [seconds |-> t - days * SECONDS_PER_DAY,
     aware   |-> IF ledger # <<>> THEN ledger[1].start_time.aware ELSE FALSE]

\* `exec.start_time >= cutoff_date` raises TypeError for an execution of the
\* pipeline that is aware when the cutoff is naive, or the reverse
CompareRaises(ledger, pipeline_id, cutoff_date) ==
    \E i \in 1..Len(ledger) :
        /\ ledger[i].pipeline_id = pipeline_id
        /\ ledger[i].start_time.aware # cutoff_date.aware

\* recent_executions
RecentExecutions(ledger, pipeline_id, cutoff_date) ==
    SelectSeq(ledger, LAMBDA e : /\ e.pipeline_id = pipeline_id
                                 /\ e.start_time.seconds >= cutoff_date.seconds)

\* [exec.duration for exec in es if exec.duration > 0]
PositiveDurations(es) ==
    LET kept == SelectSeq(es, LAMBDA e : e.duration > 0)
    IN  [i \in 1..Len(kept) |-> kept[i].duration]

\* [exec.records_processed for exec in es if exec.records_processed > 0]
PositiveRecords(es) ==
    LET kept == SelectSeq(es, LAMBDA e : e.records_processed > 0)
    IN  [i \in 1..Len(kept) |-> kept[i].records_processed]

\* records_processed / duration of the executions where both are positive
Throughputs(es) ==
    LET kept == SelectSeq(es, LAMBDA e : e.records_processed > 0 /\ e.duration > 0)
    IN  [i \in 1..Len(kept) |-> Rat(kept[i].records_processed, kept[i].duration)]

RECURSIVE RatSum(_)
RatSum(rs) ==
    IF rs = <<>> THEN Rat(0, 1)
    ELSE LET a == Head(rs)
             b == RatSum(Tail(rs))
         IN  Rat(a.num * b.den + b.num * a.den, a.den * b.den)

\* `statistics.mean(xs) if xs else 0` for a list of integers
MeanOrZero(xs) == IF xs # <<>> THEN Mean(xs) ELSE Rat(0, 1)

\* `statistics.mean(xs) if xs else 0` for a list of quotients
RatMeanOrZero(rs) ==
    IF rs # <<>> THEN Rat(RatSum(rs).num, RatSum(rs).den * Len(rs)) ELSE Rat(0, 1)

CountSuccess(es) == Cardinality({i \in 1..Len(es) : es[i].status = "SUCCESS"})

RECURSIVE MinSeq(_)
MinSeq(xs) ==
    IF Len(xs) = 1 THEN xs[1]
    ELSE IF xs[1] < MinSeq(Tail(xs)) THEN xs[1] ELSE MinSeq(Tail(xs))

RECURSIVE MaxSeq(_)
MaxSeq(xs) ==
    IF Len(xs) = 1 THEN xs[1]
    ELSE IF xs[1] > MaxSeq(Tail(xs)) THEN xs[1] ELSE MaxSeq(Tail(xs))

\* exec.start_time.date()
DayKey(e) == e.start_time.seconds \div SECONDS_PER_DAY

\* sorted(daily_trends.items()): the days in increasing order
RECURSIVE SortedDays(_)
SortedDays(days) ==
    IF days = {} THEN <<>>
    ELSE LET first == CHOOSE d \in days : \A other \in days : d <= other
         IN  <<first>> \o SortedDays(days \ {first})

\* the entry of trend_data for one day, from the executions of that day
DailyTrend(day, es) ==
    [date         |-> day,
     success_rate |-> IF Len(es) > 0 THEN Rat(100 * CountSuccess(es), Len(es))
                      ELSE Rat(0, 1),
     avg_duration |-> MeanOrZero(PositiveDurations(es)),
     throughput   |-> RatMeanOrZero(Throughputs(es))]

TrendData(es) ==
    LET days == SortedDays({DayKey(es[i]) : i \in 1..Len(es)})
    IN  [k \in 1..Len(days) |->
            DailyTrend(days[k], SelectSeq(es, LAMBDA e : DayKey(e) = days[k]))]

\* statistics.stdev(durations) raises StatisticsError on a single sample
StdevRaises(durations) == Len(durations) = 1

\* the dict get_performance_trends returns for a non-empty recent_executions;
\* a key the code sets under a condition is an Optional here
TrendReport(pipeline_id, days, es) ==
    LET durations == PositiveDurations(es)
        records   == PositiveRecords(es)
        n         == Len(durations)
    IN  [pipeline_id      |-> pipeline_id,
         success_rate     |-> IF es # <<>> THEN Rat(100 * CountSuccess(es), Len(es))
                              ELSE Rat(0, 1),
         avg_duration     |-> MeanOrZero(durations),
         min_duration     |-> IF durations # <<>> THEN MinSeq(durations) ELSE 0,
         max_duration     |-> IF durations # <<>> THEN MaxSeq(durations) ELSE 0,
         total_executions |-> Len(es),
         trend_data       |-> TrendData(es),
         days_analyzed    |-> days,
         duration_std_dev_squared
                          |-> IF n >= 2 THEN Some(Rat(SumSqDev(durations), n * (n - 1)))
                              ELSE None,
         avg_records_per_execution
                          |-> IF records # <<>> THEN Some(Mean(records)) ELSE None,
         total_records    |-> IF records # <<>> THEN Some(SumSeq(records)) ELSE None]

\* get_performance_trends(pipeline_id, days) at time t
GetPerformanceTrends(ledger, t, pipeline_id, days) ==
    LET cutoff_date       == CutoffDate(ledger, t, days)
        recent_executions == RecentExecutions(ledger, pipeline_id, cutoff_date)
    IN  IF CompareRaises(ledger, pipeline_id, cutoff_date)
        THEN [kind |-> "Raised", value |-> "TypeError"]
        ELSE IF recent_executions = <<>>
        THEN [kind |-> "Empty", value |-> [error |-> <<pipeline_id, days>>]]
        ELSE IF StdevRaises(PositiveDurations(recent_executions))
        THEN [kind |-> "Raised", value |-> "StatisticsError"]
        ELSE [kind  |-> "TrendReport",
              value |-> TrendReport(pipeline_id, days, recent_executions)]

\* the query "performance_trends"
QueryTrends(pipeline_id, days) ==
    LET r == GetPerformanceTrends(executions, now, pipeline_id, days)
    IN  /\ result' = IF r.kind = "Raised" THEN <<>> ELSE r
        /\ raised' = IF r.kind = "Raised" THEN Some(r.value) ELSE None
        /\ lastOp' = "performance_trends"
        /\ kwargs' = <<pipeline_id, days>>
        /\ candidates' = <<>>
        /\ UNCHANGED <<store, alert_history, now, emitted>>

(***************************************************************************)
(* Inputs: parsed lines of the data file.                                  *)
(***************************************************************************)
IdEtl == <<"e", "t", "l">>
IdReport == <<"R", "e", "p", "o", "r", "t">>

Line(pipeline_id, status, start_time, duration, records_processed, team) ==
    [pipeline_id |-> pipeline_id, status |-> status, start_time |-> start_time,
     aware |-> TRUE, duration |-> duration, records_processed |-> records_processed,
     team |-> team]

\* lines of two pipelines: one whose runs succeed or carry a status the
\* program does not know, one report pipeline whose runs are 30 hours apart
Inputs ==
    { Line(IdEtl, "SUCCESS", 0, Some(10), Some(3), "data"),
      Line(IdEtl, "PAUSED", 1800, None, Some(1), "platform"),
      Line(IdReport, "FAILED", 0, Some(100), Some(0), "bi"),
      Line(IdReport, "SUCCESS", 108000, Some(10), None, "bi") }

(***************************************************************************)
(* Spec: the monitor used as a library.  Lines are recorded, anomalies()   *)
(* is called and time passes, in any order.                                *)
(***************************************************************************)
Record ==
    /\ Len(executions) < MaxExecutions
    /\ \E raw \in Inputs : LoadExecution(raw)

Next ==
    \/ Record
    \/ DetectAnomalies
    \/ Tick

Spec == Init /\ [][Next]_vars

(***************************************************************************)
(* SpecWindow: a long data file is loaded.  Its first WindowPeriod lines   *)
(* are arbitrary lines of WindowInputs; each later line repeats the line   *)
(* WindowPeriod lines before it; line n starts at second 60 * n.           *)
(***************************************************************************)
WindowInputs ==
    { Line(IdEtl, "SUCCESS", 0, Some(10), Some(3), "data"),
      Line(IdEtl, "PAUSED", 0, Some(20), Some(1), "data"),
      Line(IdEtl, "FAILED", 0, None, Some(0), "platform"),
      Line(IdReport, "SUCCESS", 0, Some(0), Some(5), "bi") }

SameLine(raw, execution) ==
    [PipelineExecution(raw) EXCEPT !.start_time = 0] = [execution EXCEPT !.start_time = 0]

RecordWindow ==
    LET n == Len(executions) + 1
    IN  /\ n <= MaxWindowExecutions
        /\ \E raw \in WindowInputs :
              /\ n > WindowPeriod => SameLine(raw, executions[n - WindowPeriod])
              /\ LoadExecution([raw EXCEPT !.start_time = 60 * n])

NextWindow == RecordWindow

SpecWindow == Init /\ [][NextWindow]_vars

(***************************************************************************)
(* SpecLedger: the long data files of SpecWindow are recorded line by line *)
(* and the query "total_executions" runs at any time.                      *)
(***************************************************************************)
NextLedger ==
    \/ RecordWindow
    \/ QueryTotalExecutions

SpecLedger == Init /\ [][NextLedger]_vars

(***************************************************************************)
(* The command line (main): the data file is loaded, then one query runs.  *)
(***************************************************************************)
Loading == lastOp \in {"init", "record"}

QueryAnomalies == Loading /\ DetectAnomalies

(***************************************************************************)
(* SpecDuration: main() on data files of one pipeline whose lines differ   *)
(* in their duration, followed by the query "anomalies".  The usual        *)
(* duration is 10; at most MaxUnusualDurations lines have another one.     *)
(***************************************************************************)
DurationInputs ==
    { Line(IdEtl, "SUCCESS", 0, Some(10), None, "data"),
      Line(IdEtl, "SUCCESS", 0, Some(50), None, "data"),
      Line(IdEtl, "SUCCESS", 0, Some(100), None, "data") }

UnusualDurations ==
    Cardinality({i \in 1..Len(executions) : executions[i].duration # 10})

RecordDuration ==
    /\ Loading
    /\ Len(executions) < MaxDurationExecutions
    /\ \E raw \in DurationInputs :
          /\ raw.duration # Some(10) => UnusualDurations < MaxUnusualDurations
          /\ LoadExecution(raw)

NextDuration ==
    \/ RecordDuration
    \/ QueryAnomalies

SpecDuration == Init /\ [][NextDuration]_vars

(***************************************************************************)
(* SpecDetect: main() on data files of two pipelines whose lines differ in *)
(* status and record count, followed by the query "anomalies".             *)
(***************************************************************************)
DetectInputs ==
    { Line(IdEtl, "SUCCESS", 0, Some(10), Some(3), "data"),
      Line(IdEtl, "SUCCESS", 0, Some(10), Some(1), "data"),
      Line(IdEtl, "FAILED", 0, None, Some(3), "data"),
      Line(IdEtl, "PAUSED", 0, None, None, "data"),
      Line(IdReport, "FAILED", 0, None, Some(1), "bi") }

RecordDetect ==
    /\ Loading
    /\ Len(executions) < MaxDetectExecutions
    /\ \E raw \in DetectInputs : LoadExecution(raw)

NextDetect ==
    \/ RecordDetect
    \/ QueryAnomalies

SpecDetect == Init /\ [][NextDetect]_vars

(***************************************************************************)
(* SpecSchedule: main() on data files of two pipelines whose lines differ  *)
(* in their start time, followed by the query "anomalies".  Each line      *)
(* starts 30 or 20 hours after, or 30 hours before, the line before it     *)
(* (the first one at 0); after the first SchedulePeriod lines, each line   *)
(* repeats the pipeline and the gap of the line SchedulePeriod lines       *)
(* before it.                                                              *)
(***************************************************************************)
ScheduleGaps == {108000, 72000, -108000}

SchedulePipelines == {IdReport, IdEtl}

StartAt(n) == IF n = 0 THEN 0 ELSE executions[n].start_time.seconds

RecordSchedule ==
    LET n == Len(executions) + 1
    IN  /\ Loading
        /\ n <= MaxScheduleExecutions
        /\ \E pid \in SchedulePipelines, gap \in ScheduleGaps :
              /\ n > SchedulePeriod =>
                    /\ pid = executions[n - SchedulePeriod].pipeline_id
                    /\ gap = StartAt(n - SchedulePeriod) - StartAt(n - SchedulePeriod - 1)
              /\ LoadExecution(Line(pid, "SUCCESS", StartAt(n - 1) + gap,
                                    Some(10), Some(3), "bi"))

NextSchedule ==
    \/ RecordSchedule
    \/ QueryAnomalies

SpecSchedule == Init /\ [][NextSchedule]_vars

(***************************************************************************)
(* SpecMissing: the data files of SpecSchedule are loaded, time passes     *)
(* (up to MaxWait times WaitSeconds) and the query "anomalies" runs.       *)
(***************************************************************************)
Wait ==
    /\ lastOp \in {"init", "record", "wait"}
    /\ now + WaitSeconds <= MaxWait * WaitSeconds
    /\ now' = now + WaitSeconds
    /\ lastOp' = "wait"
    /\ kwargs' = <<>>
    /\ candidates' = <<>>
    /\ result' = <<>>
    /\ raised' = None
    /\ UNCHANGED <<store, alert_history, emitted>>

QueryAnomaliesLater ==
    /\ lastOp \in {"init", "record", "wait"}
    /\ DetectAnomalies

NextMissing ==
    \/ RecordSchedule
    \/ Wait
    \/ QueryAnomaliesLater

SpecMissing == Init /\ [][NextMissing]_vars

(***************************************************************************)
(* SpecQueries: the monitor used as a library.  Lines are recorded and the *)
(* five queries run, in any order, at second 0.  The lines start an hour,  *)
(* 25 hours or 8 days before; the lines of one pipeline carry no UTC       *)
(* offset, those of another have the empty string as their pipeline id.    *)
(***************************************************************************)
IdEmpty == <<>>

NaiveLine(pipeline_id, status, start_time, duration, records_processed, team) ==
    [Line(pipeline_id, status, start_time, duration, records_processed, team)
        EXCEPT !.aware = FALSE]

QueryInputs ==
    { Line(IdEtl, "SUCCESS", -3600, Some(10), Some(3), "data"),
      Line(IdEtl, "SUCCESS", -90000, Some(30), Some(6), "platform"),
      NaiveLine(IdReport, "FAILED", -691200, None, None, "platform"),
      Line(IdEmpty, "PAUSED", -691200, Some(20), Some(1), "data") }

QueryIds == {IdEtl, IdReport, IdEmpty}

QueryDays == {1, 7}

RecordQuery ==
    /\ Len(executions) < MaxQueryExecutions
    /\ \E raw \in QueryInputs : LoadExecution(raw)

HealthQuery ==
    \E pipeline_id \in {None} \cup {Some(id) : id \in QueryIds} :
        QueryHealth(pipeline_id)

TrendsQuery ==
    \E pipeline_id \in QueryIds, days \in QueryDays : QueryTrends(pipeline_id, days)

NextQueries ==
    \/ RecordQuery
    \/ HealthQuery
    \/ QueryTeamMetrics
    \/ TrendsQuery
    \/ QueryTotalExecutions
    \/ DetectAnomalies

SpecQueries == Init /\ [][NextQueries]_vars

(***************************************************************************)
(* SpecIsolation: main() on data files of two pipelines, one whose runs    *)
(* fail and a report pipeline, followed by the query "anomalies".  At most *)
(* MaxNaive lines of the report pipeline carry no UTC offset.              *)
(***************************************************************************)
IsolationInputs ==
    { Line(IdEtl, "FAILED", 0, Some(10), Some(3), "data"),
      Line(IdReport, "SUCCESS", 0, Some(10), Some(3), "bi"),
      NaiveLine(IdReport, "SUCCESS", 0, Some(10), Some(3), "bi") }

NaiveLines ==
    Cardinality({i \in 1..Len(executions) : ~executions[i].start_time.aware})

RecordIsolation ==
    /\ Loading
    /\ Len(executions) < MaxIsolationExecutions
    /\ \E raw \in IsolationInputs :
          /\ ~raw.aware => NaiveLines < MaxNaive
          /\ LoadExecution(raw)

NextIsolation ==
    \/ RecordIsolation
    \/ QueryAnomalies

SpecIsolation == Init /\ [][NextIsolation]_vars

(***************************************************************************)
(* SpecOrder: main() on data files that interleave the lines of two        *)
(* pipelines in any way, followed by the query "anomalies".  Each pipeline *)
(* has its lines in a fixed order (a pipeline with more lines than listed  *)
(* starts over); each line of the file starts 30 hours after the line      *)
(* before it, the line MaxOrderExecutions + 2 would start at second 0.     *)
(***************************************************************************)
EtlScript ==
    << Line(IdEtl, "FAILED", 0, Some(10), Some(9), "data"),
       Line(IdEtl, "FAILED", 0, Some(10), Some(9), "data"),
       Line(IdEtl, "FAILED", 0, Some(10), Some(9), "data"),
       Line(IdEtl, "FAILED", 0, Some(10), Some(9), "data"),
       Line(IdEtl, "FAILED", 0, Some(10), Some(9), "data"),
       Line(IdEtl, "FAILED", 0, Some(50), Some(1), "data") >>

ReportScript ==
    << Line(IdReport, "SUCCESS", 0, Some(10), Some(3), "bi"),
       Line(IdReport, "FAILED", 0, Some(10), Some(3), "bi"),
       Line(IdReport, "FAILED", 0, Some(10), Some(3), "bi"),
       Line(IdReport, "FAILED", 0, Some(10), Some(3), "bi"),
       Line(IdReport, "FAILED", 0, Some(10), Some(3), "bi") >>

OrderScripts == {EtlScript, ReportScript}

\* the next line of a pipeline
NextLine(script) ==
    LET k == Len(SelectSeq(executions, LAMBDA e : e.pipeline_id = script[1].pipeline_id))
    IN  script[(k % Len(script)) + 1]

OrderStart(n) == (n - MaxOrderExecutions - 2) * 108000

RecordOrder ==
    LET n == Len(executions) + 1
    IN  /\ Loading
        /\ n <= MaxOrderExecutions
        /\ \E script \in OrderScripts :
              LoadExecution([NextLine(script) EXCEPT !.start_time = OrderStart(n)])

NextOrder ==
    \/ RecordOrder
    \/ QueryAnomalies

SpecOrder == Init /\ [][NextOrder]_vars

(***************************************************************************)
(* SpecPrune: the monitor used as a library on one pipeline whose runs     *)
(* fail or succeed.  Lines are recorded, anomalies() is called and time    *)
(* passes, in any order.                                                   *)
(***************************************************************************)
PruneInputs ==
    { Line(IdEtl, "FAILED", 0, Some(10), Some(3), "data"),
      Line(IdEtl, "SUCCESS", 0, Some(10), Some(3), "data") }

RecordPrune ==
    /\ Len(executions) < MaxPruneExecutions
    /\ \E raw \in PruneInputs : LoadExecution(raw)

NextPrune ==
    \/ RecordPrune
    \/ DetectAnomalies
    \/ Tick

SpecPrune == Init /\ [][NextPrune]_vars

(***************************************************************************)
(* SpecDedup: the monitor used as a library on two pipelines whose runs    *)
(* all fail; the lines of one pipeline follow each other.  Lines are       *)
(* recorded, anomalies() is called and time passes, in any order.          *)
(***************************************************************************)
DedupInputs ==
    { Line(IdEtl, "FAILED", 0, Some(10), Some(3), "data"),
      Line(IdReport, "FAILED", 0, Some(10), Some(3), "bi") }

\* the lines of one pipeline follow each other
Grouped(raw) ==
    raw.pipeline_id \in DOMAIN pipeline_metrics
        => executions[Len(executions)].pipeline_id = raw.pipeline_id

RecordDedup ==
    /\ Len(executions) < MaxDedupExecutions
    /\ \E raw \in DedupInputs :
          /\ Grouped(raw)
          /\ LoadExecution(raw)

NextDedup ==
    \/ RecordDedup
    \/ DetectAnomalies
    \/ Tick

SpecDedup == Init /\ [][NextDedup]_vars

(***************************************************************************)
(* Properties of the counters.                                             *)
(***************************************************************************)
\* the ledger entries of one pipeline, in ingestion order
ExecutionsOf(pipeline_id) ==
    SelectSeq(executions, LAMBDA e : e.pipeline_id = pipeline_id)

CountStatus(pipeline_id, status) ==
    Cardinality({i \in 1..Len(executions) :
                    /\ executions[i].pipeline_id = pipeline_id
                    /\ executions[i].status = status})

\* the values f(e) of the entries e of a list that satisfy keep(e), in order
Pick(es, keep(_), f(_)) ==
    LET kept == SelectSeq(es, keep)
    IN  [i \in 1..Len(kept) |-> f(kept[i])]

Always(e) == TRUE
DurationOf(e) == e.duration
RecordsOf(e) == e.records_processed
StatusOf(e) == e.status
StartOf(e) == e.start_time
SecondsOf(e) == e.start_time.seconds
HasPositiveDuration(e) == e.duration > 0
HasPositiveRecords(e) == e.records_processed > 0

\* the last 100 entries of a list, by position
Newest(s) ==
    [i \in 1..(IF Len(s) > 100 THEN 100 ELSE Len(s)) |->
        s[i + (IF Len(s) > 100 THEN Len(s) - 100 ELSE 0)]]

\* C3: for every pipeline, total_executions is the number of lines ingested
\* for it whatever their status (a status the program does not know is
\* recorded as UNKNOWN and counted), successful_executions the number with
\* status SUCCESS, failed_executions the number with status FAILED, hence
\* total >= success + failed.
C3_Counters ==
    /\ \A i \in 1..Len(executions) : executions[i].status \in PipelineStatus
    /\ DOMAIN pipeline_metrics = {executions[i].pipeline_id : i \in 1..Len(executions)}
    /\ \A p \in DOMAIN pipeline_metrics :
          LET m == pipeline_metrics[p]
          IN  /\ m.total_executions = Len(ExecutionsOf(p))
              /\ m.successful_executions = CountStatus(p, "SUCCESS")
              /\ m.failed_executions = CountStatus(p, "FAILED")
              /\ m.total_executions >= m.successful_executions + m.failed_executions

\* a pipeline with a line of unknown status, counted in total only
C3_Witness ==
    \E p \in DOMAIN pipeline_metrics :
        /\ CountStatus(p, "UNKNOWN") >= 1
        /\ CountStatus(p, "SUCCESS") >= 1
        /\ pipeline_metrics[p].total_executions
               > pipeline_metrics[p].successful_executions
                 + pipeline_metrics[p].failed_executions
        /\ \E q \in DOMAIN pipeline_metrics : pipeline_metrics[q].failed_executions >= 2

(***************************************************************************)
(* Properties of the deduplicator.                                         *)
(***************************************************************************)
SameAlert(a, b) ==
    /\ a.pipeline_id = b.pipeline_id
    /\ a.severity = b.severity
    /\ a.message = b.message

\* C4: no two alerts emitted for the same pipeline with identical severity
\* and identical message have timestamps less than one hour apart.
C4_NoRepeatWithinHour ==
    \A i, j \in 1..Len(emitted) :
        (i < j /\ SameAlert(emitted[i], emitted[j]))
            => emitted[j].timestamp - emitted[i].timestamp >= DEDUP_SECONDS

\* anomalies() has just dropped a candidate identical to an alert emitted
\* less than an hour before, and an identical pair an hour apart was emitted
C4_Witness ==
    /\ lastOp = "anomalies"
    /\ \E k \in 1..Len(candidates) : \E i \in 1..Len(emitted) :
          /\ SameAlert(candidates[k], emitted[i])
          /\ now - emitted[i].timestamp > 0
          /\ now - emitted[i].timestamp < DEDUP_SECONDS
          /\ \A r \in 1..Len(result) : ~SameAlert(candidates[k], result[r])
    /\ \E i, j \in 1..Len(emitted) : i < j /\ SameAlert(emitted[i], emitted[j])

(***************************************************************************)
(* Properties of the detectors.                                            *)
(***************************************************************************)
\* C5: a pipeline with fewer than 5 executions never gets an alert.
C5_NoAlertBelowFive ==
    /\ \A i \in 1..Len(emitted) :
          pipeline_metrics[emitted[i].pipeline_id].total_executions >= 5
    /\ \A k \in 1..Len(candidates) :
          pipeline_metrics[candidates[k].pipeline_id].total_executions >= 5

\* anomalies() has run over a report pipeline of fewer than 5 executions
\* with a success rate below the threshold and an average gap above 25
\* hours, and returned nothing for it
C5_Witness ==
    /\ lastOp = "anomalies"
    /\ \E p \in DOMAIN pipeline_metrics :
          LET m == pipeline_metrics[p]
              k == Len(m.execution_times) - 1
          IN  /\ IsReport(p)
              /\ m.total_executions < 5
              /\ 100 * m.successful_executions < SUCCESS_RATE_THRESHOLD * m.total_executions
              /\ k >= 1
              /\ SumSeq(TimeDiffs(m.execution_times)) > DELAYED_HOURS * SECONDS_PER_HOUR * k
              /\ \A r \in 1..Len(result) : result[r].pipeline_id # p

\* the _add_alert calls of the last anomalies() for one pipeline whose
\* message starts with the given text
CandidatesOf(pipeline_id, text) ==
    SelectSeq(candidates,
              LAMBDA c : c.pipeline_id = pipeline_id /\ c.message.text = text)

AlertsOf(pipeline_id, severity, text) ==
    SelectSeq(result,
              LAMBDA a : /\ a.pipeline_id = pipeline_id
                         /\ a.severity = severity
                         /\ a.message.text = text)

AllSeverity(cs, severity) == \A i \in 1..Len(cs) : cs[i].severity = severity

\* the number of FAILED among the last 5 ledger entries of a pipeline
RecentFailures(pipeline_id) ==
    LET es == ExecutionsOf(pipeline_id)
    IN  Cardinality({i \in 1..Len(es) : i > Len(es) - 5 /\ es[i].status = "FAILED"})

\* C6: for a pipeline with at least 5 executions the failure-streak detector
\* gives one CRITICAL candidate exactly when at least 3 of its last 5
\* statuses are FAILED; after 5 FAILED lines on a fresh monitor the first
\* anomalies() returns a CRITICAL failure-streak and a HIGH success-rate alert.
C6_FailureStreak ==
    lastOp = "anomalies" =>
        \A p \in DOMAIN pipeline_metrics :
            Len(ExecutionsOf(p)) >= 5 =>
                LET cs == CandidatesOf(p, "Repeated failures")
                IN  /\ (cs # <<>>) <=> (RecentFailures(p) >= 3)
                    /\ Len(cs) <= 1
                    /\ AllSeverity(cs, "CRITICAL")
                    /\ (Len(ExecutionsOf(p)) = 5 /\ RecentFailures(p) = 5 /\ emitted = result)
                          => /\ AlertsOf(p, "CRITICAL", "Repeated failures") # <<>>
                             /\ AlertsOf(p, "HIGH", "Low success rate") # <<>>

\* the first anomalies() after 5 FAILED lines of one pipeline has returned
\* both alerts
C6_Witness ==
    /\ lastOp = "anomalies"
    /\ \E p \in DOMAIN pipeline_metrics :
          /\ Len(ExecutionsOf(p)) = 5
          /\ CountStatus(p, "FAILED") = 5
          /\ emitted = result
          /\ AlertsOf(p, "CRITICAL", "Repeated failures") # <<>>
          /\ AlertsOf(p, "HIGH", "Low success rate") # <<>>

\* C7: for a pipeline with at least 5 executions the success-rate detector
\* gives a candidate exactly when success/total*100 < 80, HIGH when the rate
\* is below 50 and MEDIUM otherwise; a rate of exactly 80 gives none and a
\* rate of exactly 50 gives MEDIUM.
C7_SuccessRate ==
    lastOp = "anomalies" =>
        \A p \in DOMAIN pipeline_metrics :
            LET t  == Len(ExecutionsOf(p))
                s  == CountStatus(p, "SUCCESS")
                cs == CandidatesOf(p, "Low success rate")
            IN  t >= 5 =>
                    /\ (cs # <<>>) <=> (100 * s < 80 * t)
                    /\ Len(cs) <= 1
                    /\ AllSeverity(cs, IF 100 * s < 50 * t THEN "HIGH" ELSE "MEDIUM")
                    /\ 5 * s = 4 * t => cs = <<>>
                    /\ 2 * s = t => (cs # <<>> /\ cs[1].severity = "MEDIUM")

\* anomalies() has run over a pipeline with 3 successes in 6 executions and
\* made a MEDIUM candidate "Low success rate: 50.0%"
C7_Witness ==
    /\ lastOp = "anomalies"
    /\ \E p \in DOMAIN pipeline_metrics :
          /\ Len(ExecutionsOf(p)) = 6
          /\ CountStatus(p, "SUCCESS") = 3
          /\ CandidatesOf(p, "Low success rate")
                = << [pipeline_id |-> p, severity |-> "MEDIUM",
                      message |-> [text |-> "Low success rate",
                                   args |-> <<[neg |-> FALSE, mag |-> 500]>>],
                      team |-> pipeline_metrics[p].team] >>

\* sum of the squares of den * x - num over a list: den^2 times the sum of
\* the squared deviations from the mean num/den
RECURSIVE SquaredDeviations(_, _)
SquaredDeviations(s, mean) ==
    IF s = <<>> THEN 0
    ELSE (mean.den * Head(s) - mean.num) * (mean.den * Head(s) - mean.num)
         + SquaredDeviations(Tail(s), mean)

\* C8: for a pipeline with at least 5 executions and n >= 5 duration samples
\* the duration detector gives a candidate exactly when the sample standard
\* deviation (n-1 denominator) is not 0 and z = |latest - mean| / stdev > 2,
\* HIGH when z > 3 and MEDIUM otherwise; nothing when all samples are equal;
\* the window of nine 10s and one 100 gives a candidate.
C8_DurationZScore ==
    lastOp = "anomalies" =>
        \A p \in DOMAIN pipeline_metrics :
            LET w      == Pick(ExecutionsOf(p), HasPositiveDuration, DurationOf)
                n      == Len(w)
                mean   == pipeline_metrics[p].avg_duration
                dev    == mean.den * w[n] - mean.num
                sq     == SquaredDeviations(w, mean)
                cs     == CandidatesOf(p, "Abnormal duration")
            IN  (Len(ExecutionsOf(p)) >= 5 /\ n >= 5) =>
                    /\ (cs # <<>>) <=> (sq > 0 /\ (n - 1) * dev * dev > 2 * 2 * sq)
                    /\ Len(cs) <= 1
                    /\ AllSeverity(cs, IF (n - 1) * dev * dev > 3 * 3 * sq
                                       THEN "HIGH" ELSE "MEDIUM")
                    /\ (\A i \in 1..n : w[i] = w[1]) => cs = <<>>
                    /\ w = <<10, 10, 10, 10, 10, 10, 10, 10, 10, 100>> => cs # <<>>

\* anomalies() has run over the durations 10 (nine times) and 100 and made
\* the MEDIUM candidate "Abnormal duration: 100s (z-score: 2.85)"
C8_Witness ==
    /\ lastOp = "anomalies"
    /\ \E p \in DOMAIN pipeline_metrics :
          /\ pipeline_metrics[p].durations = <<10, 10, 10, 10, 10, 10, 10, 10, 10, 100>>
          /\ \E k \in 1..Len(candidates) :
                /\ candidates[k].pipeline_id = p
                /\ candidates[k].severity = "MEDIUM"
                /\ candidates[k].message
                      = [text |-> "Abnormal duration",
                         args |-> <<[neg |-> FALSE, mag |-> 100],
                                    [neg |-> FALSE, mag |-> 285]>>]

\* C9: for a pipeline with at least 5 executions and at least 5
\* records_processed samples the throughput detector gives a candidate
\* exactly when (mean - latest) / mean * 100 > 50, always HIGH; with fewer
\* than 5 samples it gives none.
C9_ThroughputDrop ==
    lastOp = "anomalies" =>
        \A p \in DOMAIN pipeline_metrics :
            LET w    == Pick(ExecutionsOf(p), HasPositiveRecords, RecordsOf)
                n    == Len(w)
                mean == pipeline_metrics[p].avg_records_processed
                cs   == CandidatesOf(p, "Severe throughput drop")
            IN  Len(ExecutionsOf(p)) >= 5 =>
                    /\ n >= 5 =>
                          ((cs # <<>>) <=>
                              (100 * (mean.num - w[n] * mean.den) > 50 * mean.num))
                    /\ n < 5 => cs = <<>>
                    /\ Len(cs) <= 1
                    /\ AllSeverity(cs, "HIGH")

\* anomalies() has run over the record counts 3, 3, 3, 3, 1 and made the
\* HIGH candidate "Severe throughput drop: 61.5% decrease"
C9_Witness ==
    /\ lastOp = "anomalies"
    /\ \E p \in DOMAIN pipeline_metrics :
          /\ pipeline_metrics[p].records_processed_history = <<3, 3, 3, 3, 1>>
          /\ CandidatesOf(p, "Severe throughput drop")
                = << [pipeline_id |-> p, severity |-> "HIGH",
                      message |-> [text |-> "Severe throughput drop",
                                   args |-> <<[neg |-> FALSE, mag |-> 615]>>],
                      team |-> pipeline_metrics[p].team] >>

\* the pipelines of the data files whose id contains "report" in some case
ReportNamed == {IdReport}

\* the last 10 start times of the ledger entries of a pipeline
NewestStarts(pipeline_id) ==
    LET ts == Pick(ExecutionsOf(pipeline_id), Always, SecondsOf)
    IN  [i \in 1..(IF Len(ts) > 10 THEN 10 ELSE Len(ts)) |->
            ts[i + (IF Len(ts) > 10 THEN Len(ts) - 10 ELSE 0)]]

\* C10: the schedule detector runs only for pipelines with at least 5
\* executions whose id contains "report" in any case; it gives a HIGH
\* "delayed" candidate exactly when the mean of the gaps between the last 10
\* start times, in append order, is above 25 hours (the gaps add up to the
\* last start time minus the first); other pipelines get neither a
\* "delayed" nor a "missing" candidate.
C10_ScheduleDelayed ==
    lastOp = "anomalies" =>
        \A p \in DOMAIN pipeline_metrics :
            LET ts == NewestStarts(p)
                k  == Len(ts) - 1
                cs == CandidatesOf(p, "Report generation delayed")
            IN  /\ Len(ExecutionsOf(p)) >= 5 =>
                      /\ (cs # <<>>) <=>
                            (p \in ReportNamed /\ ts[k + 1] - ts[1] > 25 * 3600 * k)
                      /\ Len(cs) <= 1
                      /\ AllSeverity(cs, "HIGH")
                /\ p \notin ReportNamed =>
                      /\ cs = <<>>
                      /\ CandidatesOf(p, "Missing report") = <<>>

\* anomalies() has run over a report pipeline of 10 executions exactly 30
\* hours apart and made the candidate "Report generation delayed: 30.0
\* hours between runs", and over another pipeline with the same gaps
C10_Witness ==
    /\ lastOp = "anomalies"
    /\ \E p \in DOMAIN pipeline_metrics :
          /\ p = IdReport
          /\ Len(pipeline_metrics[p].execution_times) = 10
          /\ \A i \in 1..9 : pipeline_metrics[p].execution_times[i + 1].seconds
                                - pipeline_metrics[p].execution_times[i].seconds = 30 * 3600
          /\ \E k \in 1..Len(candidates) :
                /\ candidates[k].pipeline_id = p
                /\ candidates[k].severity = "HIGH"
                /\ candidates[k].message
                      = [text |-> "Report generation delayed",
                         args |-> <<[neg |-> FALSE, mag |-> 300]>>]

\* the start time, in seconds, of the line ingested last for a pipeline
LastStart(pipeline_id) ==
    LET es == ExecutionsOf(pipeline_id)
    IN  es[Len(es)].start_time.seconds

\* C11: for a report pipeline with at least 5 executions the schedule
\* detector gives one HIGH "missing" candidate exactly when the time since
\* the start of the line ingested last is above 1.5 times the mean of the
\* gaps between the last 10 start times in append order, whether or not the
\* "delayed" candidate was given and also when that mean is 0 or negative.
C11_ScheduleMissing ==
    lastOp = "anomalies" =>
        \A p \in DOMAIN pipeline_metrics :
            LET ts == NewestStarts(p)
                k  == Len(ts) - 1
                cs == CandidatesOf(p, "Missing report")
            IN  (Len(ExecutionsOf(p)) >= 5 /\ p \in ReportNamed) =>
                    /\ (cs # <<>>) <=>
                          (2 * k * (now - LastStart(p)) > 3 * (ts[k + 1] - ts[1]))
                    /\ Len(cs) <= 1
                    /\ AllSeverity(cs, "HIGH")

\* anomalies() has run over a report pipeline whose lines are not in time
\* order, with a mean gap of 0 or less, before the start of its last line,
\* and made the candidate "Missing report" without the candidate "delayed"
C11_Witness ==
    /\ lastOp = "anomalies"
    /\ \E p \in DOMAIN pipeline_metrics :
          LET ts == NewestStarts(p)
          IN  /\ p \in ReportNamed
              /\ Len(ExecutionsOf(p)) >= 5
              /\ ts[Len(ts)] - ts[1] < 0
              /\ now - LastStart(p) < 0
              /\ CandidatesOf(p, "Missing report") # <<>>
              /\ CandidatesOf(p, "Report generation delayed") = <<>>

(***************************************************************************)
(* Properties of the queries.                                              *)
(***************************************************************************)
TotalOf(p) == pipeline_metrics[p].total_executions
SuccessfulOf(p) == pipeline_metrics[p].successful_executions
FailedOf(p) == pipeline_metrics[p].failed_executions

\* the sum of a counter over a finite set of pipelines
RECURSIVE SumOver(_, _)
SumOver(ps, counter) ==
    IF ps = {} THEN 0
    ELSE LET p == CHOOSE q \in ps : TRUE
         IN  pipeline_metrics[p][counter] + SumOver(ps \ {p}, counter)

\* the pipelines whose metrics entry names the team
PipelinesOf(team) ==
    {p \in DOMAIN pipeline_metrics : pipeline_metrics[p].team = <<team>>}

\* C12: team_metrics() has one entry per team that some pipeline belongs to;
\* its total_pipelines is the number of pipelines of the team, its
\* total_executions, successful_executions and failed_executions are the sums
\* of the counters of those pipelines, and its avg_success_rate is
\* summed successes / summed totals * 100.
C12_TeamMetrics ==
    (lastOp = "team_metrics" /\ raised = <<>>) =>
        /\ result.kind = "TeamAggregates"
        /\ DOMAIN result.value
              = {pipeline_metrics[p].team[1] : p \in DOMAIN pipeline_metrics}
        /\ \A team \in DOMAIN result.value :
              LET tm == result.value[team]
                  ps == PipelinesOf(team)
              IN  /\ tm.total_pipelines = Cardinality(ps)
                  /\ tm.total_executions = SumOver(ps, "total_executions")
                  /\ tm.successful_executions = SumOver(ps, "successful_executions")
                  /\ tm.failed_executions = SumOver(ps, "failed_executions")
                  /\ tm.avg_success_rate.den > 0
                  /\ tm.avg_success_rate.num * SumOver(ps, "total_executions")
                        = 100 * SumOver(ps, "successful_executions") * tm.avg_success_rate.den

\* team_metrics() has run over two teams, one of them with two pipelines
\* whose mean success rate is not the rate of the team and with runs that
\* neither succeeded nor failed
C12_Witness ==
    /\ lastOp = "team_metrics"
    /\ Cardinality(DOMAIN result.value) = 2
    /\ \E team \in DOMAIN result.value : \E p, q \in PipelinesOf(team) :
          /\ p # q
          /\ result.value[team].total_pipelines = 2
          /\ (SuccessfulOf(p) * TotalOf(q) + SuccessfulOf(q) * TotalOf(p))
                * (TotalOf(p) + TotalOf(q))
                # 2 * (SuccessfulOf(p) + SuccessfulOf(q)) * TotalOf(p) * TotalOf(q)
          /\ result.value[team].total_executions
                > result.value[team].successful_executions
                  + result.value[team].failed_executions
          /\ result.value[team].successful_executions > 0

\* the pipeline ids of the lines ingested
Ingested == {executions[i].pipeline_id : i \in 1..Len(executions)}

\* C13: health(pipeline_id) for a string for which no line was ever ingested
\* returns the NotFound result, without raising, and creates no metrics
\* entry for it.
C13_HealthNotFound ==
    (lastOp = "pipeline_health" /\ kwargs[1] # <<>> /\ kwargs[1][1] \notin Ingested) =>
        /\ raised = <<>>
        /\ result.kind = "NotFound"
        /\ kwargs[1][1] \notin DOMAIN pipeline_metrics

\* C14: health() without a pipeline id returns a mapping with exactly one
\* entry per pipeline id ingested, each with success_rate =
\* success / total * 100, total_executions and team of that pipeline;
\* health(pipeline_id) for an ingested pipeline returns a snapshot with
\* its success_rate.
C14_HealthAll ==
    /\ (lastOp = "pipeline_health" /\ kwargs[1] = <<>>) =>
          /\ raised = <<>>
          /\ result.kind = "HealthSummaryMap"
          /\ DOMAIN result.value = Ingested
          /\ \A p \in Ingested :
                /\ result.value[p].success_rate.den > 0
                /\ result.value[p].success_rate.num * Len(ExecutionsOf(p))
                      = 100 * CountStatus(p, "SUCCESS") * result.value[p].success_rate.den
                /\ result.value[p].total_executions = Len(ExecutionsOf(p))
                /\ result.value[p].team = pipeline_metrics[p].team
    /\ (lastOp = "pipeline_health" /\ kwargs[1] # <<>> /\ kwargs[1][1] \in Ingested) =>
          /\ raised = <<>>
          /\ result.kind = "HealthSnapshot"
          /\ result.value.pipeline_id = kwargs[1][1]
          /\ result.value.success_rate.num * Len(ExecutionsOf(kwargs[1][1]))
                = 100 * CountStatus(kwargs[1][1], "SUCCESS")
                  * result.value.success_rate.den

\* the ledger entries of a pipeline that start at or after t - days
Matching(pipeline_id, days, t) ==
    SelectSeq(executions, LAMBDA e : /\ e.pipeline_id = pipeline_id
                                     /\ e.start_time.seconds >= t - days * 86400)

\* C15: performance_trends(pipeline_id, days) returns the Empty result,
\* without raising, whenever the ledger has no line of that pipeline with
\* start_time >= now - days: an empty ledger, a pipeline never ingested, a
\* pipeline whose lines are all older.
C15_TrendsEmpty ==
    (lastOp = "performance_trends" /\ Matching(kwargs[1], kwargs[2], now) = <<>>) =>
        /\ raised = <<>>
        /\ result.kind = "Empty"

\* C16: performance_trends(pipeline_id, days) with at least one matching
\* line returns a TrendReport and never raises; without a positive duration
\* the average, minimum and maximum duration are 0, a day without throughput
\* sample has throughput 0, and a single duration sample gives the standard
\* deviation 0.
C16_TrendsDefaults ==
    (lastOp = "performance_trends" /\ Matching(kwargs[1], kwargs[2], now) # <<>>) =>
        LET es   == Matching(kwargs[1], kwargs[2], now)
            durs == Pick(es, HasPositiveDuration, DurationOf)
        IN  /\ raised = <<>>
            /\ result.kind = "TrendReport"
            /\ result.value.total_executions = Len(es)
            /\ durs = <<>> =>
                  /\ result.value.avg_duration.num = 0
                  /\ result.value.min_duration = 0
                  /\ result.value.max_duration = 0
            /\ \A k \in 1..Len(result.value.trend_data) :
                  result.value.trend_data[k].throughput.den > 0
            /\ Len(durs) = 1 =>
                  result.value.duration_std_dev_squared = <<[num |-> 0, den |-> 1]>>

\* the start times of the lines of a pipeline are all aware or all naive
OneAwareness(pipeline_id) ==
    \A i, j \in 1..Len(executions) :
        (executions[i].pipeline_id = pipeline_id /\ executions[j].pipeline_id = pipeline_id)
            => executions[i].start_time.aware = executions[j].start_time.aware

\* C17: anomalies() never raises, and the first anomalies() returns the
\* CRITICAL failure-streak alert of every pipeline with at least 3 FAILED
\* among its last 5 lines whose own start times are of one awareness, whatever
\* the lines of the other pipelines are.
C17_Isolation ==
    lastOp = "anomalies" =>
        /\ raised = <<>>
        /\ \A p \in DOMAIN pipeline_metrics :
              (Len(ExecutionsOf(p)) >= 5 /\ RecentFailures(p) >= 3 /\ OneAwareness(p))
                  => AlertsOf(p, "CRITICAL", "Repeated failures") # <<>>

\* C18: a step of health, team_metrics or performance_trends, whatever its
\* arguments, changes neither the metrics store nor the ledger nor the alert
\* history; a step of anomalies() changes neither the metrics store nor the
\* ledger.
C18_QueriesFrame ==
    [][ /\ lastOp' \in {"pipeline_health", "team_metrics", "performance_trends"} =>
              /\ pipeline_metrics' = pipeline_metrics
              /\ pipeline_keys' = pipeline_keys
              /\ executions' = executions
              /\ alert_history' = alert_history
        /\ lastOp' = "anomalies" =>
              /\ pipeline_metrics' = pipeline_metrics
              /\ pipeline_keys' = pipeline_keys
              /\ executions' = executions ]_vars

\* performance_trends has run for a pipeline id never ingested, on a monitor
\* with lines and with alerts that an earlier anomalies() stored
C18_Witness ==
    /\ lastOp = "performance_trends"
    /\ kwargs[1] \notin Ingested
    /\ executions # <<>>
    /\ emitted # <<>>
    /\ \E p \in DOMAIN alert_history : alert_history[p] # <<>>

\* C19: the ledger holds every line ingested, in ingestion order (line n of
\* the data file, which starts at second 60 * n, is at position n), also
\* after the rolling windows have evicted entries; its length is the sum of
\* total_executions over all pipelines and the value total_executions returns.
C19_Ledger ==
    /\ \A i \in 1..Len(executions) : executions[i].start_time.seconds = 60 * i
    /\ SumOver(DOMAIN pipeline_metrics, "total_executions") = Len(executions)
    /\ lastOp = "total_executions" =>
          /\ raised = <<>>
          /\ result.value = Len(executions)

\* total_executions has returned more than 100 for two pipelines, one of
\* them with more than 100 lines and a status window of 100
C19_Witness ==
    /\ lastOp = "total_executions"
    /\ result.value > 100
    /\ Cardinality(DOMAIN pipeline_metrics) = 2
    /\ \E p \in DOMAIN pipeline_metrics :
          /\ pipeline_metrics[p].total_executions > 100
          /\ Len(pipeline_metrics[p].status_history) = 100
          /\ pipeline_metrics[p].execution_times[1].seconds > executions[1].start_time.seconds

\* C20: the last_execution of a pipeline is the start_time of the line
\* ingested last for it, also when an earlier line of the pipeline starts
\* later.
C20_LastExecution ==
    \A p \in DOMAIN pipeline_metrics :
        LET es == ExecutionsOf(p)
        IN  /\ es # <<>>
            /\ pipeline_metrics[p].last_execution = <<es[Len(es)].start_time>>

\* a line has just been recorded for a pipeline that has an earlier line
\* with a later start_time
C20_Witness ==
    /\ lastOp = "record"
    /\ LET p  == executions[Len(executions)].pipeline_id
           es == ExecutionsOf(p)
       IN  /\ \E i \in 1..Len(es) :
                 es[i].start_time.seconds > es[Len(es)].start_time.seconds
           /\ pipeline_metrics[p].last_execution[1].seconds
                 = executions[Len(executions)].start_time.seconds

(***************************************************************************)
(* Properties of the stored alert history.                                 *)
(***************************************************************************)
\* anomalies() has just returned
Returned == lastOp = "anomalies" /\ raised = None

\* the pipelines _add_alert was called for in the last anomalies()
Submitted == {candidates[k].pipeline_id : k \in 1..Len(candidates)}

\* alerts of the stored history of a pipeline an hour old or older
Stale(pipeline_id) ==
    {i \in 1..Len(alert_history[pipeline_id]) :
        now - alert_history[pipeline_id][i].timestamp >= DEDUP_SECONDS}

\* C21: after anomalies() has submitted candidates of a pipeline, emitted or
\* suppressed, the stored alert history of that pipeline holds only alerts
\* stamped less than one hour before the call.
C21_PrunedOnSubmit ==
    Returned => \A p \in Submitted : Stale(p) = {}

\* the alerts of one pipeline in the list the last anomalies() returned
ResultOf(pipeline_id) ==
    SelectSeq(result, LAMBDA a : a.pipeline_id = pipeline_id)

\* C22: every alert anomalies() returns is stamped with the time of the call
\* and is, right after the call, in the stored history of its pipeline with
\* the same severity, message and timestamp: the alerts returned for a
\* pipeline are the last entries of its history, in the order returned.
C22_EmittedStored ==
    Returned =>
        /\ \A k \in 1..Len(result) :
              /\ result[k].timestamp = now
              /\ result[k].pipeline_id \in DOMAIN alert_history
        /\ \A p \in DOMAIN alert_history :
              LET h == alert_history[p]
                  r == ResultOf(p)
              IN  /\ Len(r) <= Len(h)
                  /\ SubSeq(h, Len(h) - Len(r) + 1, Len(h)) = r

\* anomalies() has just returned two alerts of a pipeline, after the first
\* call, and the history of that pipeline also holds an alert emitted before
C22_Witness ==
    /\ Returned
    /\ now > 0
    /\ \E p \in DOMAIN alert_history :
          /\ Len(ResultOf(p)) >= 2
          /\ Len(alert_history[p]) > Len(ResultOf(p))
          /\ alert_history[p][1].timestamp < now

\* C23: a suppressed candidate changes nothing and does not refresh the
\* window.  Over every call of anomalies(): a pipeline none of whose
\* candidates is returned keeps its stored history as it was, and a candidate
\* is returned, stamped with the time of the call, unless an identical alert
\* of its pipeline was returned less than one hour before, however many calls
\* suppressed it in between.
C23_NoRefresh ==
    [][(lastOp' = "anomalies" /\ raised' = None) =>
          /\ \A p \in DOMAIN alert_history :
                (\A k \in 1..Len(result') : result'[k].pipeline_id # p)
                    => /\ p \in DOMAIN alert_history'
                       /\ alert_history'[p] = alert_history[p]
          /\ \A k \in 1..Len(candidates') :
                (\A i \in 1..Len(emitted) :
                    SameAlert(emitted[i], candidates'[k])
                        => now - emitted[i].timestamp >= DEDUP_SECONDS)
                    => \E r \in 1..Len(result') :
                          /\ SameAlert(result'[r], candidates'[k])
                          /\ result'[r].timestamp = now']_vars

\* anomalies() has just returned an alert again, an hour or more after it
\* returned the identical one; between the two it returned another alert of
\* that pipeline, in a call that had the identical candidate (the pipeline
\* had the same five records) and suppressed it
C23_Witness ==
    /\ Returned
    /\ \E r \in 1..Len(result) : \E i, j \in 1..Len(emitted) - Len(result) :
          /\ SameAlert(emitted[i], result[r])
          /\ now - emitted[i].timestamp >= DEDUP_SECONDS
          /\ emitted[j].pipeline_id = result[r].pipeline_id
          /\ emitted[j].timestamp > emitted[i].timestamp
          /\ emitted[j].timestamp < now
          /\ pipeline_metrics[result[r].pipeline_id].total_executions = MIN_EXECUTIONS

(***************************************************************************)
(* Properties of the order of the returned alerts.                         *)
(***************************************************************************)
\* the number of the first line ingested for a pipeline
FirstRecord(pipeline_id) ==
    CHOOSE i \in 1..Len(executions) :
        /\ executions[i].pipeline_id = pipeline_id
        /\ \A j \in 1..(i - 1) : executions[j].pipeline_id # pipeline_id

\* the place of the detector that writes a message: success rate, duration,
\* throughput, failure streak, schedule delayed, schedule missing
DetectorRank(text) ==
    CASE text = "Low success rate" -> 1
      [] text = "Abnormal duration" -> 2
      [] text = "Severe throughput drop" -> 3
      [] text = "Repeated failures" -> 4
      [] text = "Report generation delayed" -> 5
      [] text = "Missing report" -> 6

\* C24: in the list one anomalies() returns, the alerts of one pipeline are
\* contiguous and in the order success rate, duration, throughput, failure
\* streak, schedule delayed, schedule missing, and the pipelines come in the
\* order of their first ingested record.
C24_Order ==
    Returned =>
        \A i, j \in 1..Len(result) :
            i < j =>
                \/ FirstRecord(result[i].pipeline_id) < FirstRecord(result[j].pipeline_id)
                \/ /\ result[i].pipeline_id = result[j].pipeline_id
                   /\ DetectorRank(result[i].message.text)
                         < DetectorRank(result[j].message.text)

\* anomalies() has just returned alerts of all six kinds, of two pipelines,
\* the last line of the pipeline ingested first coming after lines of the
\* other
C24_Witness ==
    /\ Returned
    /\ {result[k].message.text : k \in 1..Len(result)}
          = {"Low success rate", "Abnormal duration", "Severe throughput drop",
             "Repeated failures", "Report generation delayed", "Missing report"}
    /\ result[1].pipeline_id # result[Len(result)].pipeline_id
    /\ executions[Len(executions)].pipeline_id = result[1].pipeline_id
    /\ \E p \in DOMAIN pipeline_metrics :
          Cardinality({k \in 1..Len(result) : result[k].pipeline_id = p}) >= 4

(***************************************************************************)
(* Properties of the suppression across pipelines.                         *)
(***************************************************************************)
\* the alerts returned before the last anomalies()
EmittedBefore == SubSeq(emitted, 1, Len(emitted) - Len(result))

\* C25: suppression is per pipeline.  A candidate anomalies() does not return
\* repeats an alert of its own pipeline returned less than one hour before;
\* an alert of another pipeline with the same severity and message never
\* suppresses it.
C25_PerPipeline ==
    Returned =>
        \A k \in 1..Len(candidates) :
            (\A r \in 1..Len(result) : ~SameAlert(result[r], candidates[k]))
                => \E i \in 1..Len(EmittedBefore) :
                      /\ EmittedBefore[i].pipeline_id = candidates[k].pipeline_id
                      /\ EmittedBefore[i].severity = candidates[k].severity
                      /\ EmittedBefore[i].message = candidates[k].message
                      /\ now - EmittedBefore[i].timestamp < DEDUP_SECONDS

\* anomalies() has just returned an alert of one pipeline half an hour after
\* it returned an alert of another pipeline with the same severity and the
\* same message, and has suppressed the candidate of that other pipeline
C25_Witness ==
    /\ Returned
    /\ \E r \in 1..Len(result) : \E i \in 1..Len(EmittedBefore) :
          /\ EmittedBefore[i].pipeline_id # result[r].pipeline_id
          /\ EmittedBefore[i].severity = result[r].severity
          /\ EmittedBefore[i].message = result[r].message
          /\ now - EmittedBefore[i].timestamp > 0
          /\ now - EmittedBefore[i].timestamp < DEDUP_SECONDS
          /\ \E k \in 1..Len(candidates) :
                /\ SameAlert(candidates[k], EmittedBefore[i])
                /\ \A q \in 1..Len(result) : ~SameAlert(result[q], candidates[k])

(***************************************************************************)
(* Properties of record().                                                 *)
(***************************************************************************)
\* the metrics entry a fresh monitor has after these records
RECURSIVE Replay(_)
Replay(es) ==
    IF es = <<>> THEN DefaultMetrics
    ELSE UpdatePipelineMetrics(Replay(SubSeq(es, 1, Len(es) - 1)), es[Len(es)])

\* C26: record(e) appends e to the ledger and changes the metrics entry of
\* e.pipeline_id only: the entry of every other pipeline, the order of the
\* known pipelines and the alert history stay as they were; so the entry of a
\* pipeline is the one its own records, in ingestion order, give on a fresh
\* monitor.
C26_RecordFrame ==
    /\ [][lastOp' = "record" =>
            LET e == executions'[Len(executions')]
            IN  /\ executions' = Append(executions, e)
                /\ DOMAIN pipeline_metrics'
                      = DOMAIN pipeline_metrics \cup {e.pipeline_id}
                /\ \A p \in DOMAIN pipeline_metrics \ {e.pipeline_id} :
                      pipeline_metrics'[p] = pipeline_metrics[p]
                /\ pipeline_metrics'[e.pipeline_id].total_executions
                      = MetricsOf(pipeline_metrics, e.pipeline_id).total_executions + 1
                /\ SubSeq(pipeline_keys', 1, Len(pipeline_keys)) = pipeline_keys
                /\ alert_history' = alert_history
                /\ now' = now]_vars
    /\ [](\A p \in DOMAIN pipeline_metrics :
             pipeline_metrics[p] = Replay(ExecutionsOf(p)))

\* a line of one pipeline has just been recorded between lines of another;
\* both pipelines have two lines or more
C26_Witness ==
    /\ lastOp = "record"
    /\ Len(executions) >= 4
    /\ LET n == Len(executions)
       IN  /\ executions[n].pipeline_id # executions[n - 1].pipeline_id
           /\ Len(ExecutionsOf(executions[n].pipeline_id)) >= 2
           /\ Len(ExecutionsOf(executions[n - 1].pipeline_id)) >= 2

Min(a, b) == IF a < b THEN a ELSE b

\* C27: every known pipeline has at least one execution; its status window
\* and its start time window hold min(total_executions, 100) entries;
\* last_execution is the last entry of the start time window; its duration
\* and records windows are no longer than the status window, and a record
\* adds an entry to them only when its value is strictly positive: a record
\* with duration 0 leaves the duration window and avg_duration as they were.
C27_EntryInvariants ==
    /\ [](\A p \in DOMAIN pipeline_metrics :
             LET m == pipeline_metrics[p]
             IN  /\ m.total_executions >= 1
                 /\ Len(m.status_history) = Min(m.total_executions, MAX_HISTORY)
                 /\ Len(m.execution_times) = Min(m.total_executions, MAX_HISTORY)
                 /\ m.last_execution = Some(m.execution_times[Len(m.execution_times)])
                 /\ Len(m.durations) <= Len(m.status_history)
                 /\ Len(m.records_processed_history) <= Len(m.status_history))
    /\ [][lastOp' = "record" =>
            LET e   == executions'[Len(executions')]
                old == MetricsOf(pipeline_metrics, e.pipeline_id)
                new == pipeline_metrics'[e.pipeline_id]
            IN  /\ IF e.duration > 0
                   THEN /\ Len(new.durations) = Min(Len(old.durations) + 1, MAX_HISTORY)
                        /\ new.durations[Len(new.durations)] = e.duration
                   ELSE /\ new.durations = old.durations
                        /\ new.avg_duration = old.avg_duration
                /\ IF e.records_processed > 0
                   THEN /\ Len(new.records_processed_history)
                              = Min(Len(old.records_processed_history) + 1, MAX_HISTORY)
                        /\ new.records_processed_history[Len(new.records_processed_history)]
                              = e.records_processed
                   ELSE /\ new.records_processed_history = old.records_processed_history
                        /\ new.avg_records_processed = old.avg_records_processed]_vars

\* a record without a duration has just been ingested for a pipeline with
\* more than 100 executions, whose duration window is not empty and shorter
\* than its status window
C27_Witness ==
    /\ lastOp = "record"
    /\ LET e == executions[Len(executions)]
           m == pipeline_metrics[e.pipeline_id]
       IN  /\ e.duration = 0
           /\ m.total_executions > MAX_HISTORY
           /\ Len(m.status_history) = MAX_HISTORY
           /\ m.durations # <<>>
           /\ Len(m.durations) < MAX_HISTORY

(***************************************************************************)
(* Properties of the team of a pipeline.                                   *)
(***************************************************************************)
\* the team the last ingested line of a pipeline names
LastTeam(pipeline_id) ==
    LET es == ExecutionsOf(pipeline_id) IN es[Len(es)].team

\* the sum of one field over the entries of some teams in the result
RECURSIVE SumTeams(_, _)
SumTeams(teams, field) ==
    IF teams = {} THEN 0
    ELSE LET t == CHOOSE x \in teams : TRUE
         IN  result.value[t][field] + SumTeams(teams \ {t}, field)

\* C28: the team of a pipeline is the team of the line ingested last for it,
\* and team_metrics() counts each known pipeline, with all its executions,
\* under that team only: a team's entry counts the pipelines whose last line
\* names it and all their ledger lines, total_pipelines sums to the number
\* of known pipelines and total_executions to the number of ingested lines.
C28_TeamOfLastRecord ==
    /\ \A p \in DOMAIN pipeline_metrics : pipeline_metrics[p].team = Some(LastTeam(p))
    /\ (lastOp = "team_metrics" /\ raised = None) =>
          /\ DOMAIN result.value = {LastTeam(p) : p \in Ingested}
          /\ \A t \in DOMAIN result.value :
                LET ps == {p \in Ingested : LastTeam(p) = t}
                IN  /\ result.value[t].total_pipelines = Cardinality(ps)
                    /\ result.value[t].total_executions
                          = Cardinality({i \in 1..Len(executions) :
                                            executions[i].pipeline_id \in ps})
          /\ SumTeams(DOMAIN result.value, "total_pipelines") = Cardinality(Ingested)
          /\ SumTeams(DOMAIN result.value, "total_executions") = Len(executions)

\* team_metrics() has run over two teams after a pipeline moved from one to
\* the other: its earlier lines name the team that still has another
\* pipeline
C28_Witness ==
    /\ lastOp = "team_metrics"
    /\ Cardinality(DOMAIN result.value) = 2
    /\ \E p \in Ingested : \E i \in 1..Len(executions) :
          /\ executions[i].pipeline_id = p
          /\ executions[i].team # LastTeam(p)
          /\ executions[i].team \in DOMAIN result.value
          /\ Len(ExecutionsOf(p)) >= 3
          /\ result.value[LastTeam(p)].total_pipelines = 2

(***************************************************************************)
(* Properties of the rolling windows.                                      *)
(***************************************************************************)
\* C1: each of the four windows of a pipeline holds at most 100 entries and
\* is exactly the most recent entries appended for it, in append order.
C1_WindowsFifo ==
    \A p \in DOMAIN pipeline_metrics :
        LET m  == pipeline_metrics[p]
            es == ExecutionsOf(p)
        IN  /\ Len(m.durations) <= 100
            /\ Len(m.records_processed_history) <= 100
            /\ Len(m.status_history) <= 100
            /\ Len(m.execution_times) <= 100
            /\ m.durations = Newest(Pick(es, HasPositiveDuration, DurationOf))
            /\ m.records_processed_history = Newest(Pick(es, HasPositiveRecords, RecordsOf))
            /\ m.status_history = Newest(Pick(es, Always, StatusOf))
            /\ m.execution_times = Newest(Pick(es, Always, StartOf))

\* a pipeline whose duration, status and start-time windows have evicted
\* entries and hold 100 entries that are not all equal
C1_Witness ==
    \E p \in DOMAIN pipeline_metrics :
        LET m  == pipeline_metrics[p]
            es == ExecutionsOf(p)
        IN  /\ Len(Pick(es, HasPositiveDuration, DurationOf)) > 100
            /\ Len(m.durations) = 100
            /\ Len(m.status_history) = 100
            /\ m.execution_times[1] = es[Len(es) - 99].start_time
            /\ m.execution_times[1].seconds > es[1].start_time.seconds
            /\ \E i, j \in 1..100 : m.durations[i] # m.durations[j]
            /\ \E i, j \in 1..100 : m.status_history[i] # m.status_history[j]

\* C2: avg_duration is the mean of the entries now in the duration window,
\* avg_records_processed the mean of the records_processed window, and the
\* average of an empty window is 0.
C2_AveragesOfWindow ==
    \A p \in DOMAIN pipeline_metrics :
        LET m == pipeline_metrics[p]
        IN  /\ m.avg_duration.den > 0
            /\ m.avg_records_processed.den > 0
            /\ m.avg_duration.num * Len(m.durations)
                  = SumSeq(m.durations) * m.avg_duration.den
            /\ m.avg_records_processed.num * Len(m.records_processed_history)
                  = SumSeq(m.records_processed_history) * m.avg_records_processed.den
            /\ m.durations = <<>> => m.avg_duration.num = 0
            /\ m.records_processed_history = <<>> => m.avg_records_processed.num = 0

\* a pipeline whose duration window has evicted an entry, so that its mean
\* differs from the mean of all durations ingested, and a pipeline whose
\* duration window is empty
C2_Witness ==
    /\ \E p \in DOMAIN pipeline_metrics :
          LET m   == pipeline_metrics[p]
              all == Pick(ExecutionsOf(p), HasPositiveDuration, DurationOf)
          IN  /\ Len(all) > 100
              /\ SumSeq(all) * 100 # SumSeq(m.durations) * Len(all)
              /\ m.avg_duration.num * 100 = SumSeq(m.durations) * m.avg_duration.den
    /\ \E p \in DOMAIN pipeline_metrics :
          /\ pipeline_metrics[p].durations = <<>>
          /\ pipeline_metrics[p].total_executions >= 1

====
